---- MODULE Spec2Model ----
(***************************************************************************)
(* Model of the strategy manager (src/lib/trading-strategies.ts) and of    *)
(* the backtesting engine (src/lib/trading-execution.ts).                  *)
(*                                                                         *)
(* JavaScript numbers are modelled as tagged values so that NaN and        *)
(* undefined, which the code produces when it reads a field a bar does not *)
(* have, are kept apart from ordinary numbers.  Ordinary numbers are       *)
(* integers.                                                               *)
(***************************************************************************)
EXTENDS Integers, Sequences, FiniteSets, TLC

\* ------------------------------------------------------------------------
\* Bounds of the model
\* ------------------------------------------------------------------------
\* number of bars of the stored series of a known symbol
TotalBars == 50
\* number of iterated bars, the last ones of a run, whose indicator values,
\* arbitrage draws and rejections are enumerated; the bars before them read
\* neutral indicators and draw no arbitrage opportunity
HotBars == 2
\* largest value of the wall clock read by Date.now()
MaxClock == 1
\* largest length of the price series enumerated in full, and the length of
\* the long price series
MaxSeriesLen == 4
LongSeriesLen == 20
\* largest number of orders the execution service is asked to create
MaxOrders == 3

\* ------------------------------------------------------------------------
\* Program constants
\* ------------------------------------------------------------------------
MinBars == 50
WarmUp == 20
RsiPeriod == 14
RsiOversold == 30
RsiOverbought == 70
RiskPerMille == 10
MovePerMille == 20
FeeDivisor == 1000

\* ------------------------------------------------------------------------
\* JavaScript values
\* ------------------------------------------------------------------------
Num(n) == [tag |-> "num", v |-> n]
NaN == [tag |-> "nan", v |-> 0]
Undef == [tag |-> "undef", v |-> 0]

\* Infinity, which the code returns by name (a profit factor without losses)
Infinity == [tag |-> "inf", v |-> 0]

IsNum(x) == x.tag = "num"
IsInf(x) == x.tag = "inf"

\* obj.price of a bar or tick: undefined when the object has no such field
PriceOf(obj) == IF "price" \in DOMAIN obj THEN Num(obj.price) ELSE Undef

\* product; Infinity times a positive number is Infinity (the only products
\* with Infinity the code forms have a positive factor)
JsMul(a, b) ==
  IF IsNum(a) /\ IsNum(b) THEN Num(a.v * b.v)
  ELSE IF (IsInf(a) /\ IsNum(b) /\ b.v > 0) \/ (IsInf(b) /\ IsNum(a) /\ a.v > 0) THEN Infinity
  ELSE NaN
JsAdd(a, b) == IF IsNum(a) /\ IsNum(b) THEN Num(a.v + b.v) ELSE NaN
JsSub(a, b) == IF IsNum(a) /\ IsNum(b) THEN Num(a.v - b.v) ELSE NaN
\* quotient of two numbers; 0/0 is NaN, and x/0 (an infinity) is kept as NaN
\* because no operation of the model distinguishes the two
JsDiv(a, b) ==
  IF IsInf(a) /\ IsNum(b) /\ b.v > 0 THEN Infinity ELSE
  IF IsNum(a) /\ IsNum(b) /\ b.v # 0
  THEN Num(IF (a.v >= 0) = (b.v > 0) THEN (IF a.v >= 0 THEN a.v ELSE -a.v) \div (IF b.v > 0 THEN b.v ELSE -b.v)
           ELSE -((IF a.v >= 0 THEN a.v ELSE -a.v) \div (IF b.v > 0 THEN b.v ELSE -b.v)))
  ELSE NaN
JsAbs(a) == IF IsNum(a) THEN Num(IF a.v >= 0 THEN a.v ELSE -a.v) ELSE NaN
\* Math.max(a, b): NaN as soon as one argument is NaN
JsMax(a, b) ==
  IF IsNum(a) /\ IsNum(b) THEN (IF a.v >= b.v THEN a ELSE b)
  ELSE IF (IsInf(a) /\ (IsNum(b) \/ IsInf(b))) \/ (IsInf(b) /\ IsNum(a)) THEN Infinity
  ELSE NaN
\* Math.min(a, b)
JsMin(a, b) ==
  IF IsNum(a) /\ IsNum(b) THEN (IF a.v <= b.v THEN a ELSE b)
  ELSE IF IsInf(a) /\ (IsNum(b) \/ IsInf(b)) THEN b
  ELSE IF IsInf(b) /\ IsNum(a) THEN a
  ELSE NaN
\* a > b, a >= b, a === b on numbers: false as soon as one side is NaN
JsGt(a, b) == IsNum(a) /\ IsNum(b) /\ a.v > b.v
JsGe(a, b) == IsNum(a) /\ IsNum(b) /\ a.v >= b.v
JsEq(a, b) == IsNum(a) /\ IsNum(b) /\ a.v = b.v
\* a < b
JsLt(a, b) == IsNum(a) /\ IsNum(b) /\ a.v < b.v
\* a !== 0: true of NaN and of Infinity
JsNonZero(a) == ~(IsNum(a) /\ a.v = 0)

\* reduce((sum, x) => sum + x, 0) over a list of numbers
RECURSIVE JsSum(_)
JsSum(xs) == IF Len(xs) = 0 THEN Num(0) ELSE JsAdd(xs[1], JsSum(Tail(xs)))

\* the element of a singleton.  The elements of a set are values, so
\* The({F(x) : x \in {e}}) computes e once, however often F reads x.
The(S) == CHOOSE x \in S : TRUE

\* Strengths and confidences are percentages of which the code takes thirds
\* and averages over up to three values; they are held in eighteenths of a
\* percent, which keeps all of these exact.
Percent(n) == Num(18 * n)

\* ------------------------------------------------------------------------
\* Strategies
\* ------------------------------------------------------------------------
StrategyNames == {"technical", "ml", "arbitrage"}
\* iteration order of the strategies map (insertion order)
StrategyOrder == <<"technical", "ml", "arbitrage">>
Actions == {"buy", "sell", "hold"}

\* a StrategySignal
Signal(strategy, action, strength, confidence, entryPrice, stopLoss, takeProfit) ==
  [strategy |-> strategy, action |-> action, strength |-> strength,
   confidence |-> confidence, entryPrice |-> entryPrice,
   stopLoss |-> stopLoss, takeProfit |-> takeProfit]

\* what an analyze call that throws yields
Thrown == Signal("none", "throw", Undef, Undef, Undef, Undef, Undef)

\* calculateStopLoss and calculateTakeProfit, of TradingStrategy and of
\* StrategyManager alike: every action other than buy takes the sell branch
CalculateStopLoss(entryPrice, action, atr) ==
  LET stopDistance == JsMul(atr, Num(2))
  IN IF action = "buy" THEN JsSub(entryPrice, stopDistance) ELSE JsAdd(entryPrice, stopDistance)

CalculateTakeProfit(entryPrice, action, atr) ==
  LET profitDistance == JsMul(atr, Num(3))
  IN IF action = "buy" THEN JsAdd(entryPrice, profitDistance) ELSE JsSub(entryPrice, profitDistance)

\* Indicator values of a window, as the technical strategy computes them:
\* rsi, macd line, macd signal line, short and long moving average.
BullReading == [rsi |-> 50, macd |-> 2, signal |-> 1, smaShort |-> 2, smaLong |-> 1]
BearReading == [rsi |-> 50, macd |-> 1, signal |-> 2, smaShort |-> 1, smaLong |-> 2]
FlatReading == [rsi |-> 50, macd |-> 1, signal |-> 1, smaShort |-> 1, smaLong |-> 1]
Readings == {BullReading, BearReading, FlatReading}

BoolCount(b) == IF b THEN 1 ELSE 0

\* a strength with a vote worth 50
StrengthOfVotesHalves(votes) == JsMin(Percent(votes * 50), Percent(100))

\* the strength and the confidence of `votes` agreeing indicators
StrengthOfVotes(votes) == JsMin(Percent(votes * 33), Percent(100))
ConfidenceOfVotes(votes) == JsMin(JsMul(JsDiv(Percent(votes), Num(3)), Num(100)), Percent(100))

\* TechnicalAnalysisStrategy.analyze on market data md
TechnicalAnalyze(md) ==
  IF md.hasNull
  THEN Thrown
  ELSE
    LET ind == md.ind
        histogram == ind.macd - ind.signal
        rsiOversold == ind.rsi < RsiOversold
        rsiOverbought == ind.rsi > RsiOverbought
        macdBullish == ind.macd > ind.signal /\ histogram > 0
        macdBearish == ind.macd < ind.signal /\ histogram < 0
        smaBullish == ind.smaShort > ind.smaLong
        smaBearish == ind.smaShort < ind.smaLong
        buySignals == BoolCount(rsiOversold) + BoolCount(macdBullish) + BoolCount(smaBullish)
        sellSignals == BoolCount(rsiOverbought) + BoolCount(macdBearish) + BoolCount(smaBearish)
        action == IF buySignals >= 2 THEN "buy"
                  ELSE IF sellSignals >= 2 THEN "sell" ELSE "hold"
        strength == IF buySignals >= 2 THEN StrengthOfVotes(buySignals)
                    ELSE IF sellSignals >= 2 THEN StrengthOfVotes(sellSignals) ELSE Percent(0)
        confidence == IF buySignals >= 2 THEN ConfidenceOfVotes(buySignals)
                      ELSE IF sellSignals >= 2 THEN ConfidenceOfVotes(sellSignals) ELSE Percent(0)
        price == PriceOf(md.latest)
    IN Signal("technical", action, strength, confidence, price,
              IF action # "hold" THEN CalculateStopLoss(price, action, md.atr) ELSE Undef,
              IF action # "hold" THEN CalculateTakeProfit(price, action, md.atr) ELSE Undef)

\* a fallback that claims no confidence
GetFallbackSignalUnsure(latest) ==
  Signal("ml", "hold", Percent(50), Percent(0), PriceOf(latest), Undef, Undef)

\* MachineLearningStrategy.getFallbackSignal
GetFallbackSignal(latest) ==
  Signal("ml", "hold", Percent(50), Percent(50), PriceOf(latest), Undef, Undef)

\* What the inference collaborator does with a call: the client cannot be
\* created ("initFails"), the completion call raises, the completion has no
\* content ("empty"), the content is not JSON ("unparseable"), the content
\* is the JSON null, or it is a JSON object with the given fields.
Answer(kind, action, strength, confidence) ==
  [kind |-> kind, action |-> action, strength |-> strength, confidence |-> confidence]
Failing(kind) == Answer(kind, "", Undef, Undef)
Recommends(action) == Answer("object", action, Percent(80), Percent(70))
NoAnswer == Failing("none")

\* the answers seen by the analyze requests to the manager
MlResponses ==
  {Failing("raises"), Recommends("buy"), Recommends("sell"), Recommends("hold"),
   Recommends("strong_buy")}

\* the answers seen by a single analyze call
MlAnswers ==
  MlResponses
    \cup {Failing("empty"), Failing("unparseable"), Failing("null"),
          Answer("object", "buy", Percent(150), Percent(-5))}

\* building the prompt reads d.price.toFixed of the last 20 elements, so
\* data without prices (or with a null element) raises inside the try block
PromptThrows(md) == md.hasNull \/ ~("price" \in DOMAIN md.latest)

\* the signal built from the parsed content, whose fields are copied as
\* they are
ParsedSignal(md, answer) ==
  LET price == PriceOf(md.latest)
  IN Signal("ml", answer.action, answer.strength, answer.confidence, price,
            IF answer.action # "hold"
            THEN CalculateStopLoss(price, answer.action, md.atr) ELSE Undef,
            IF answer.action # "hold"
            THEN CalculateTakeProfit(price, answer.action, md.atr) ELSE Undef)

\* the part of analyze that follows the completion
AfterCompletion(md, answer) ==
  IF answer.kind = "object"
  THEN ParsedSignal(md, answer)
  ELSE GetFallbackSignal(md.latest)

\* MachineLearningStrategy.analyze, when every await of it settles
MLAnalyze(md, resp) ==
  IF resp.kind = "initFails" \/ PromptThrows(md)
  THEN GetFallbackSignal(md.latest)
  ELSE AfterCompletion(md, resp)

\* outcomes of detectPriceDiscrepancy: above the 0.1% threshold or not
Draws == {"above", "below"}

\* ArbitrageStrategy.analyze
\* (the strength of an opportunity lies between 10 and 50; 30 stands for it)
ArbitrageAnalyze(md, draw) ==
  LET price == PriceOf(md.latest)
  IN IF draw = "above"
     THEN Signal("arbitrage", "buy", JsMin(Percent(30), Percent(100)), Percent(95), price,
                 JsDiv(JsMul(price, Num(999)), Num(1000)),
                 JsDiv(JsMul(price, Num(1002)), Num(1000)))
     ELSE Signal("arbitrage", "hold", Percent(0), Percent(0), price, Undef, Undef)

\* strategy.analyze(marketData), dispatched on the strategy
Analyze(name, md, resp, draw) ==
  CASE name = "technical" -> TechnicalAnalyze(md)
    [] name = "ml" -> MLAnalyze(md, resp)
    [] OTHER -> ArbitrageAnalyze(md, draw)

\* result of an analyzeSymbol call: the signals it returns, the strategies
\* whose analyze it called, those whose analyze threw, and whether the call
\* itself ended with an error
NoneAnalyzed == [signals |-> << >>, called |-> {}, threw |-> {}, error |-> FALSE]

\* analyzeSymbol without its try/catch: a throwing analyze ends the call
Uncaught(name, signal, rest) ==
  IF signal.action = "throw"
  THEN [signals |-> << >>, called |-> rest.called \cup {name},
        threw |-> rest.threw \cup {name}, error |-> TRUE]
  ELSE [rest EXCEPT !.called = @ \cup {name}, !.signals = <<signal>> \o @]

AnalyzeStepUncaught(name, active, md, resp, draw, rest) ==
  IF name \in active
  THEN Uncaught(name, Analyze(name, md, resp, draw), rest)
  ELSE rest

\* the try/catch around one analyze call: its signal is pushed, or its
\* error logged
Caught(name, signal, rest) ==
  IF signal.action = "throw"
  THEN [rest EXCEPT !.called = @ \cup {name}, !.threw = @ \cup {name}]
  ELSE [rest EXCEPT !.called = @ \cup {name}, !.signals = <<signal>> \o @]

\* the body of the loop of analyzeSymbol for strategy `name`, given the
\* result `rest` of the remaining iterations
AnalyzeStep(name, active, md, resp, draw, rest) ==
  IF name \in active
  THEN Caught(name, Analyze(name, md, resp, draw), rest)
  ELSE rest

RECURSIVE AnalyzeFrom(_, _, _, _, _)
AnalyzeFrom(k, active, md, resp, draw) ==
  IF k > Len(StrategyOrder)
  THEN NoneAnalyzed
  ELSE AnalyzeStep(StrategyOrder[k], active, md, resp, draw,
                   AnalyzeFrom(k + 1, active, md, resp, draw))

\* StrategyManager.analyzeSymbol
AnalyzeSymbol(active, md, resp, draw) == AnalyzeFrom(1, active, md, resp, draw)

Votes(signals, action) == Cardinality({k \in 1..Len(signals) : signals[k].action = action})

\* the reduce over Object.entries(votes): buy, sell, hold in this order, the
\* later entry winning unless the earlier has strictly more votes
WinningAction(signals) ==
  LET first == IF Votes(signals, "buy") > Votes(signals, "sell") THEN "buy" ELSE "sell"
  IN IF Votes(signals, first) > Votes(signals, "hold") THEN first ELSE "hold"

NoSignal == [action |-> "none", strength |-> Undef, confidence |-> Undef,
             entryPrice |-> Undef, stopLoss |-> Undef, takeProfit |-> Undef,
             votes |-> 0]

\* a test that lets the winner of the comparisons through with any vote
HasVotes(votes, total) == votes >= 1

\* the majority test with >= in place of >
HasMajorityWeak(votes, total) == 2 * votes >= total

\* the test `votes[winningAction] > signals.length / 2`
HasMajority(votes, total) == 2 * votes > total

\* the confidences pushed for an action, in the order of the signals
ConfidencesOf(signals, action) ==
  [k \in 1..Votes(signals, action) |->
     SelectSeq(signals, LAMBDA sg : sg.action = action)[k].confidence]

\* the tally `confidences[signal.action].push(...)` raises a TypeError for
\* a signal whose action is none of buy, sell, hold
TallyThrows(signals) == \E k \in 1..Len(signals) : signals[k].action \notin Actions

\* a consensus that keeps the stop-loss and take-profit of the first signal
\* of the winning action
ConsensusStopsProposed(signals, md, winningAction) ==
  LET first == SelectSeq(signals, LAMBDA sg : sg.action = winningAction)[1]
  IN [stopLoss |-> first.stopLoss, takeProfit |-> first.takeProfit]

\* the stop-loss and take-profit of the consensus
ConsensusStops(signals, md, winningAction) ==
  LET price == PriceOf(md.latest)
  IN [stopLoss |-> IF winningAction # "hold"
                   THEN CalculateStopLoss(price, winningAction, md.atr) ELSE Undef,
      takeProfit |-> IF winningAction # "hold"
                     THEN CalculateTakeProfit(price, winningAction, md.atr) ELSE Undef]

\* StrategyManager.getConsensusSignal applied to the signals of its own
\* analyzeSymbol call, when the tally does not raise
ConsensusOf(signals, md) ==
  IF Len(signals) = 0
  THEN NoSignal
  ELSE LET winningAction == WinningAction(signals)
           votes == Votes(signals, winningAction)
           confidences == ConfidencesOf(signals, winningAction)
           avgConfidence == IF Len(confidences) > 0
                            THEN JsDiv(JsSum(confidences), Num(Len(confidences)))
                            ELSE Num(0)
           stops == ConsensusStops(signals, md, winningAction)
       IN IF HasMajority(votes, Len(signals))
          THEN [action |-> winningAction,
                strength |-> JsDiv(JsMul(Percent(votes), Num(100)), Num(Len(signals))),
                confidence |-> avgConfidence,
                entryPrice |-> PriceOf(md.latest),
                stopLoss |-> stops.stopLoss,
                takeProfit |-> stops.takeProfit,
                votes |-> votes]
          ELSE NoSignal

\* error: the call ended with the error of a strategy; typeError: it ended
\* with the TypeError of the tally
ConsensusFrom(analysis, md) ==
  [signals |-> analysis.signals,
   error |-> analysis.error,
   typeError |-> ~analysis.error /\ TallyThrows(analysis.signals),
   signal |-> IF analysis.error \/ TallyThrows(analysis.signals)
              THEN NoSignal ELSE ConsensusOf(analysis.signals, md)]

GetConsensusSignal(active, md, resp, draw) ==
  ConsensusFrom(AnalyzeSymbol(active, md, resp, draw), md)

\* ------------------------------------------------------------------------
\* State
\* ------------------------------------------------------------------------
VARIABLES
  activeStrategies,  \* StrategyManager.activeStrategies
  lastEval,          \* outcome of the last analyze request to the manager
  now,               \* the last reading of the wall clock (Date.now())
  pc,                \* state of the run: Initialized, Running, Completed, Failed
  config,            \* the BacktestConfig of the run
  ind,               \* indicator values of the windows of the run's last bars
  i,                 \* loop index of runBacktest (0-based, as in the code)
  capital, maxCapital, maxDrawdown, currentDrawdown,
  trades, equityCurve,
  decisions,         \* per iterated bar: the consensus action, none or error
  result,            \* the BacktestResult returned, once Completed
  prior,             \* the BacktestResult of the run before this one
  ml,                \* the analyze call of the machine-learning strategy in progress
  opt,               \* the optimizeStrategy call in progress
  calc,              \* the last application of a function of the engine
  calls,             \* the concurrent runBacktest calls in progress on the engine
  svc                \* TradingExecutionService: its orders, positions and calls

vars == <<activeStrategies, lastEval, now, pc, config, ind, i, capital,
          maxCapital, maxDrawdown, currentDrawdown, trades, equityCurve,
          decisions, result, prior, ml, opt, calc, calls, svc>>

managerVars == <<activeStrategies, lastEval>>
runVars == <<pc, config, ind, i, capital, maxCapital, maxDrawdown,
             currentDrawdown, trades, equityCurve, decisions, result, prior>>
callVars == <<ml, opt, calc, calls, svc>>
engineVars == <<activeStrategies, lastEval, now, ml, opt, calc>>

KnownSymbol == "BTC/USD"
Symbols == {KnownSymbol, "DOGE/USD"}
InitialCapitals == {1000}
\* date ranges: the stored bars carry the timestamps 1..TotalBars
StartDates == {1, 2}
EndDates == {10, TotalBars}
Configs == [symbol : Symbols, startDate : StartDates, endDate : EndDates,
            initialCapital : InitialCapitals]
NoConfig == [symbol |-> "", startDate |-> 0, endDate |-> 0, initialCapital |-> 0]

\* the stored series of the known symbol (BacktestingEngine.historicalData,
\* set at construction and never changed): bars without a price field
CloseOf(k) == 100 + k
HistoricalData == [k \in 1..TotalBars |-> [timestamp |-> k, close |-> CloseOf(k)]]

NoResult == [summary |-> [totalTrades |-> 0, winningTrades |-> 0, losingTrades |-> 0,
                          winRate |-> Undef, totalReturn |-> Undef,
                          totalReturnPercent |-> Undef, maxDrawdown |-> Undef,
                          sharpeRatio |-> Undef, profitFactor |-> Undef],
             trades |-> << >>, equity_curve |-> << >>,
             metrics |-> [sortinoRatio |-> Undef], config |-> NoConfig]
NoEval == [signals |-> << >>, called |-> {}, threw |-> {}, error |-> FALSE,
           consSignals |-> << >>, consError |-> FALSE, consTypeError |-> FALSE,
           consensus |-> NoSignal, atr |-> Undef,
           active |-> {}]

HotOffsets == 1..HotBars

\* no analyze call of the machine-learning strategy has been made
NoCall == [pc |-> "idle", zai |-> FALSE]
\* no optimizeStrategy call has been made
NoSweep == [pc |-> "idle"]
\* no function has been applied
NoCalc == [fn |-> "none"]
\* the runBacktest calls that may be in progress at once, none made yet
RunIds == {1, 2}
NoRun == [pc |-> "idle"]
NoCalls == [r \in RunIds |-> NoRun]
\* the prices the simulated market quotes for the traded symbol
Quotes == {1000, 2000}
\* no ExecutionResult
NoExecution == [success |-> FALSE, status |-> "none", executedPrice |-> Undef,
                executedQuantity |-> 0, fees |-> Undef]
\* TradingExecutionService after construction: no orders, no positions, the
\* base price quoted; calls holds the executeOrder call of each order,
\* cancels the orders for which cancelOrder has returned true
NoService == [orders |-> << >>, positions |-> << >>, calls |-> << >>,
              last |-> 1000, cancels |-> {}]

Init ==
  /\ activeStrategies = StrategyNames
  /\ lastEval = NoEval
  /\ now = 0
  /\ pc = "Initialized"
  /\ config = NoConfig
  /\ ind = [k \in HotOffsets |-> FlatReading]
  /\ i = 0
  /\ capital = Undef /\ maxCapital = Undef
  /\ maxDrawdown = Undef /\ currentDrawdown = Undef
  /\ trades = << >> /\ equityCurve = << >> /\ decisions = << >>
  /\ result = NoResult
  /\ prior = NoResult
  /\ ml = NoCall
  /\ opt = NoSweep
  /\ calc = NoCalc
  /\ calls = NoCalls
  /\ svc = NoService

\* ------------------------------------------------------------------------
\* Strategy manager operations
\* ------------------------------------------------------------------------
\* (the set of active strategies is arranged before the run or the sweep is
\* started)
ActivateStrategy(name) ==
  /\ pc = "Initialized"
  /\ opt.pc = "idle"
  /\ activeStrategies' = activeStrategies \cup {name}
  /\ UNCHANGED <<lastEval, now>>
  /\ UNCHANGED runVars
  /\ UNCHANGED callVars

DeactivateStrategy(name) ==
  /\ pc = "Initialized"
  /\ opt.pc = "idle"
  /\ activeStrategies' = activeStrategies \ {name}
  /\ UNCHANGED <<lastEval, now>>
  /\ UNCHANGED runVars
  /\ UNCHANGED callVars

\* market data of an analyze request: ticks carrying a price, bars without
\* one, or two elements of which the first is null
\* atr is what calculateATR gives for the data: 0 for fewer than 15
\* elements, as in the data of two elements
Tick == [timestamp |-> 1, close |-> 1000, price |-> 1000]
Bar == [timestamp |-> 1, close |-> 1000]
MarketDatas ==
  [latest : {Tick, Bar}, hasNull : {FALSE}, ind : Readings, atr : {Num(5)}]
    \cup [latest : {Tick}, hasNull : {TRUE}, ind : {FlatReading}, atr : {Num(0)}]

\* the analyze branch of the strategies route: analyzeSymbol, then
\* getConsensusSignal, on the same market data
EvalOf(analysis, consensus, md, active) ==
  [signals |-> analysis.signals, called |-> analysis.called,
   threw |-> analysis.threw, error |-> analysis.error,
   consSignals |-> consensus.signals, consError |-> consensus.error,
   consTypeError |-> consensus.typeError,
   consensus |-> consensus.signal, atr |-> md.atr,
   active |-> active]

AnalyzeRequest(md, resp, draw1, draw2) ==
  /\ lastEval' = EvalOf(AnalyzeSymbol(activeStrategies, md, resp, draw1),
                        GetConsensusSignal(activeStrategies, md, resp, draw2),
                        md, activeStrategies)
  /\ UNCHANGED <<activeStrategies, now>>
  /\ UNCHANGED runVars
  /\ UNCHANGED callVars

\* ------------------------------------------------------------------------
\* The technical strategy as a function of the indicator values
\* ------------------------------------------------------------------------
\* indicator values on both sides of every threshold and at the thresholds
RsiValues == {RsiOversold - 10, RsiOversold, 50, RsiOverbought, RsiOverbought + 10}
LinePairs == {<<2, 1>>, <<1, 2>>, <<1, 1>>}
TechnicalReadings ==
  {[rsi |-> r, macd |-> m[1], signal |-> m[2], smaShort |-> a[1], smaLong |-> a[2]] :
     r \in RsiValues, m \in LinePairs, a \in LinePairs}
TechnicalDatas ==
  [latest : {Tick, Bar}, hasNull : {FALSE}, ind : TechnicalReadings, atr : {Num(0), Num(5)}]

\* TechnicalAnalysisStrategy.analyze(marketData), called on its own
TechnicalRequest(md) ==
  /\ calc' = [fn |-> "analyze", md |-> md, signal |-> TechnicalAnalyze(md)]
  /\ UNCHANGED <<activeStrategies, lastEval, now, ml, opt, calls, svc>>
  /\ UNCHANGED runVars

\* ------------------------------------------------------------------------
\* The relative strength index
\* ------------------------------------------------------------------------
\* (TechnicalAnalysisStrategy.calculateRSI on bars and
\* MarketAnalysisService.calculateRSI on prices; quotients are kept exact, as
\* fractions n/d with d > 0)
Frac(n, d) == [n |-> n, d |-> d]
FracAdd(a, b) == Frac(a.n * b.d + b.n * a.d, a.d * b.d)
FracSub(a, b) == Frac(a.n * b.d - b.n * a.d, a.d * b.d)
\* a / b for b > 0
FracDiv(a, b) == Frac(a.n * b.d, a.d * b.n)
FracLe(a, b) == a.n * b.d <= b.n * a.d
FracEq(a, b) == a.n * b.d = b.n * a.d

\* the series handed to calculateRSI: every short series of small prices
\* and long series that rise by steps, fall, stay flat or zigzag
SeriesPrices == 0..3
ShortSeries == UNION {[1..n -> SeriesPrices] : n \in 0..MaxSeriesLen}
RisingSeries ==
  {[k \in 1..LongSeriesLen |->
      start + ((k - 1) \div 2) * (odd + even) + ((k - 1) % 2) * odd] :
     start \in {1, 2}, odd \in {1, 2}, even \in {1, 2}}
OtherLongSeries ==
  {[k \in 1..LongSeriesLen |-> LongSeriesLen + 1 - k],
   [k \in 1..LongSeriesLen |-> 5],
   [k \in 1..LongSeriesLen |-> 5 + 2 * (k % 2)],
   [k \in 1..LongSeriesLen |-> IF k < LongSeriesLen THEN k ELSE 1]}
RsiSeries == ShortSeries \cup RisingSeries \cup OtherLongSeries
RsiPeriods == {1, 2, RsiPeriod}

\* data.map(d => d.close || d.price) on bars, which carry no price: a
\* close of 0 gives undefined
ClosesOfBars(series) ==
  [k \in 1..Len(series) |-> IF series[k] = 0 THEN Undef ELSE Num(series[k])]
\* the prices of a price array
ClosesOfPrices(series) == [k \in 1..Len(series) |-> Num(series[k])]

\* closes[i] - closes[i - 1]
Changes(closes) == [k \in 1..(Len(closes) - 1) |-> JsSub(closes[k + 1], closes[k])]

\* the sum of changes.filter(change => change > 0)
RECURSIVE SumOfGains(_)
SumOfGains(changes) ==
  IF Len(changes) = 0 THEN 0
  ELSE (IF JsGt(Head(changes), Num(0)) THEN Head(changes).v ELSE 0) + SumOfGains(Tail(changes))

\* the sum of changes.filter(change => change < 0).map(Math.abs)
RECURSIVE SumOfLosses(_)
SumOfLosses(changes) ==
  IF Len(changes) = 0 THEN 0
  ELSE (IF JsLt(Head(changes), Num(0)) THEN 0 - Head(changes).v ELSE 0)
       + SumOfLosses(Tail(changes))

\* an index that leaves the 1 out of its denominator
IndexOfStrengthAlone(rs) == FracSub(Frac(100, 1), FracDiv(Frac(100, 1), rs))

\* 100 - (100 / (1 + rs))
IndexOfStrength(rs) ==
  FracSub(Frac(100, 1), FracDiv(Frac(100, 1), FracAdd(Frac(1, 1), rs)))

\* calculateRSI on the closes of its data
CalculateRSI(closes, period) ==
  IF Len(closes) < period + 1 THEN Frac(50, 1)
  ELSE LET changes == Changes(closes)
           avgGain == Frac(SumOfGains(changes), period)
           avgLoss == Frac(SumOfLosses(changes), period)
       IN IF avgLoss.n = 0 THEN Frac(100, 1)
          ELSE IndexOfStrength(FracDiv(avgGain, avgLoss))

RsiServices == {"TechnicalAnalysisStrategy", "MarketAnalysisService"}

\* one application of calculateRSI of either service, to data chosen once
RsiRequest(service, series, period) ==
  /\ calc = NoCalc
  /\ calc' = [fn |-> "calculateRSI", service |-> service, series |-> series,
              period |-> period,
              closes |-> IF service = "TechnicalAnalysisStrategy"
                         THEN ClosesOfBars(series) ELSE ClosesOfPrices(series),
              rsi |-> CalculateRSI(IF service = "TechnicalAnalysisStrategy"
                                   THEN ClosesOfBars(series) ELSE ClosesOfPrices(series),
                                   period)]
  /\ UNCHANGED <<activeStrategies, lastEval, now, ml, opt, calls, svc>>
  /\ UNCHANGED runVars

\* ------------------------------------------------------------------------
\* One analyze call of the machine-learning strategy, await by await
\* ------------------------------------------------------------------------
\* the data of the call: also data short enough for an ATR of 0
MlMarketDatas ==
  MarketDatas \cup [latest : {Tick, Bar}, hasNull : {FALSE}, ind : {FlatReading}, atr : {Num(0)}]

\* the call has not returned a signal
NotReturned == Signal("ml", "pending", Undef, Undef, Undef, Undef, Undef)

\* pc: initializing (awaiting ZAI.create), initialized, awaiting (awaiting
\* the completion), answered, returned; zai: whether this.zai is set
MlState(at, zai, md, answer, signal) ==
  [pc |-> at, zai |-> zai, md |-> md, answer |-> answer, signal |-> signal]

\* from `const latest` to the completion call: the prompt, then
\* this.zai.chat, which raises when zai is null
BuildPrompt(zai, md) ==
  IF PromptThrows(md) \/ ~zai
  THEN MlState("returned", zai, md, NoAnswer, GetFallbackSignal(md.latest))
  ELSE MlState("awaiting", zai, md, NoAnswer, NotReturned)

\* analyze(marketData) up to its first await
MlAnalyzeCall(md) ==
  /\ ml.pc \in {"idle", "returned"}
  /\ ml' = IF ~ml.zai
           THEN MlState("initializing", FALSE, md, NoAnswer, NotReturned)
           ELSE BuildPrompt(TRUE, md)
  /\ UNCHANGED <<activeStrategies, lastEval, now, opt, calc, calls, svc>>
  /\ UNCHANGED runVars

\* ZAI.create settles: with a client, or with an error that initialize
\* catches, leaving zai null
ClientCreated(ok) ==
  /\ ml.pc = "initializing"
  /\ ml' = [ml EXCEPT !.pc = "initialized", !.zai = ok]
  /\ UNCHANGED <<activeStrategies, lastEval, now, opt, calc, calls, svc>>
  /\ UNCHANGED runVars

\* zai.chat.completions.create settles
CollaboratorAnswers(answer) ==
  /\ ml.pc = "awaiting"
  /\ ml' = [ml EXCEPT !.pc = "answered", !.answer = answer]
  /\ UNCHANGED <<activeStrategies, lastEval, now, opt, calc, calls, svc>>
  /\ UNCHANGED runVars

\* the continuation of analyze after an await that settled
MlResume ==
  /\ ml.pc \in {"initialized", "answered"}
  /\ ml' = IF ml.pc = "initialized"
           THEN BuildPrompt(ml.zai, ml.md)
           ELSE [ml EXCEPT !.pc = "returned", !.signal = AfterCompletion(ml.md, ml.answer)]
  /\ UNCHANGED <<activeStrategies, lastEval, now, opt, calc, calls, svc>>
  /\ UNCHANGED runVars

\* ------------------------------------------------------------------------
\* Backtesting engine
\* ------------------------------------------------------------------------
InRange(cfg, bar) == bar.timestamp >= cfg.startDate /\ bar.timestamp <= cfg.endDate

\* the bars of the range, newest first
FilterByDateNewestFirst(data, cfg) ==
  LET Keep(bar) == InRange(cfg, bar)
      kept == SelectSeq(data, Keep)
  IN [k \in 1..Len(kept) |-> kept[Len(kept) + 1 - k]]

\* historicalData.filter(d => date >= startDate && date <= endDate)
FilterByDate(data, cfg) ==
  LET Keep(bar) == InRange(cfg, bar) IN SelectSeq(data, Keep)

\* the validation with <= in place of <
InsufficientLoose(n) == n <= MinBars

\* the test `filteredData.length < 50`
Insufficient(n) == n < MinBars

\* BacktestingEngine.calculatePositionSize
CalculatePositionSize(cap, signal) ==
  LET riskAmount == JsMul(cap, Num(RiskPerMille))
      estimatedPriceMove == JsMul(signal.entryPrice, Num(MovePerMille))
  IN JsDiv(riskAmount, estimatedPriceMove)

\* a trade closed at the bar it was opened at
TradeOfSameBar(cfg, idx, clock, cap, consensus, currentBar, nextBar) ==
  [id |-> <<cfg.symbol, idx, clock>>,
   type |-> consensus.action,
   quantity |-> CalculatePositionSize(cap, consensus),
   entryPrice |-> Num(currentBar.close),
   exitPrice |-> Num(currentBar.close),
   entryTime |-> currentBar.timestamp,
   exitTime |-> currentBar.timestamp,
   profitLoss |-> NaN,
   profitLossPercent |-> NaN,
   fees |-> NaN]

\* the trade runBacktest records at index idx for a non-hold consensus
TradeOf(cfg, idx, clock, cap, consensus, currentBar, nextBar) ==
  LET positionSize == CalculatePositionSize(cap, consensus)
      entryPrice == Num(currentBar.close)
      exitPrice == Num(nextBar.close)
      direction == IF consensus.action = "buy" THEN Num(1) ELSE Num(-1)
      profit == JsMul(JsMul(JsSub(exitPrice, entryPrice), positionSize), direction)
      fees == JsDiv(JsAbs(JsMul(entryPrice, positionSize)), Num(FeeDivisor))
      netProfit == JsSub(profit, fees)
  IN [id |-> <<cfg.symbol, idx, clock>>,
      type |-> consensus.action,
      quantity |-> positionSize,
      entryPrice |-> entryPrice,
      exitPrice |-> exitPrice,
      entryTime |-> currentBar.timestamp,
      exitTime |-> nextBar.timestamp,
      profitLoss |-> netProfit,
      profitLossPercent |-> JsDiv(JsMul(netProfit, Num(100)), JsMul(entryPrice, positionSize)),
      fees |-> fees]

\* the test `consensusSignal && consensusSignal.action !== 'hold'`
Traded(consensus) == consensus.action # "none" /\ consensus.action # "hold"

\* an equity curve that gets a point only at the bars that traded
PushEquityIfTraded(curve, traded, bar, cap, drawdown) ==
  IF traded
  THEN Append(curve, [timestamp |-> bar.timestamp, equity |-> cap, drawdown |-> drawdown])
  ELSE curve

\* equityCurve.push({timestamp, equity, drawdown}) at the end of the try block
PushEquity(curve, traded, bar, cap, drawdown) ==
  Append(curve, [timestamp |-> bar.timestamp, equity |-> cap, drawdown |-> drawdown])

\* current drawdown in percent of the peak
DrawdownOf(peak, cap) == JsDiv(JsMul(JsSub(peak, cap), Num(100)), peak)

\* Math.sqrt on a non-negative integer, rounded up so that only 0 has root 0
RECURSIVE SqrtFrom(_, _)
SqrtFrom(n, r) == IF r * r >= n THEN r ELSE SqrtFrom(n, r + 1)
JsSqrt(a) == IF IsNum(a) /\ a.v >= 0 THEN Num(SqrtFrom(a.v, 0)) ELSE NaN

\* trades.filter(t => t.profitLoss > 0) and trades.filter(t => t.profitLoss < 0)
WinningTrades(trs) == SelectSeq(trs, LAMBDA t : JsGt(t.profitLoss, Num(0)))
LosingTrades(trs) == SelectSeq(trs, LAMBDA t : JsLt(t.profitLoss, Num(0)))

\* the Sharpe ratio of calculateSummary.  With S the sum of the n returns,
\* avgReturn = S/n and variance = Q/n^3 for Q the sum of the (n*r - S)^2, so
\* stdDev is 0 exactly when Q is 0 and avgReturn/stdDev = S*n/sqrt(Q*n);
\* with no returns avgReturn is 0/0
SharpeRatio(trs) ==
  LET n == Len(trs)
      returns == [k \in 1..n |-> trs[k].profitLossPercent]
      sum == JsSum(returns)
      avgReturn == JsDiv(sum, Num(n))
      squares == [k \in 1..n |->
                    LET d == JsSub(JsMul(Num(n), returns[k]), sum) IN JsMul(d, d)]
      variance == IF IsNum(avgReturn) THEN JsSum(squares) ELSE NaN
      stdDev == JsSqrt(JsMul(variance, Num(n)))
  IN IF JsNonZero(stdDev) THEN JsDiv(JsMul(sum, Num(n)), stdDev) ELSE Num(0)

\* the profit factor of calculateSummary
ProfitFactor(trs) ==
  LET grossProfit == JsSum([k \in 1..Len(WinningTrades(trs)) |-> WinningTrades(trs)[k].profitLoss])
      grossLoss == JsAbs(JsSum([k \in 1..Len(LosingTrades(trs)) |-> LosingTrades(trs)[k].profitLoss]))
  IN IF JsNonZero(grossLoss) THEN JsDiv(grossProfit, grossLoss) ELSE Infinity

\* BacktestingEngine.calculateSummary (the fields the ledger, the fitness
\* and the ratios decide); percentages are whole numbers
CalculateSummary(trs, initialCapital, finalCapital, maxDd) ==
  LET totalReturn == JsSub(finalCapital, Num(initialCapital))
  IN [totalTrades |-> Len(trs),
      winningTrades |-> Len(WinningTrades(trs)),
      losingTrades |-> Len(LosingTrades(trs)),
      winRate |-> IF Len(trs) > 0
                  THEN JsDiv(Num(Len(WinningTrades(trs)) * 100), Num(Len(trs)))
                  ELSE Num(0),
      totalReturn |-> totalReturn,
      totalReturnPercent |-> JsDiv(JsMul(totalReturn, Num(100)), Num(initialCapital)),
      maxDrawdown |-> maxDd,
      sharpeRatio |-> SharpeRatio(trs),
      profitFactor |-> ProfitFactor(trs)]

\* the return% of the trades below zero
NegativeReturns(trs) ==
  LET losing == SelectSeq(trs, LAMBDA t : JsLt(t.profitLossPercent, Num(0)))
  IN [k \in 1..Len(losing) |-> losing[k].profitLossPercent]

\* sqrt(sum of the squares / count) of a list of returns, 0 for no returns
DownsideDeviation(negativeReturns) ==
  JsSqrt(IF Len(negativeReturns) > 0
         THEN JsDiv(JsSum([k \in 1..Len(negativeReturns) |->
                             JsMul(negativeReturns[k], negativeReturns[k])]),
                    Num(Len(negativeReturns)))
         ELSE Num(0))

\* the Sortino ratio of calculateAdvancedMetrics
SortinoRatio(summary, downsideDeviation) ==
  IF JsNonZero(downsideDeviation)
  THEN JsDiv(summary.totalReturnPercent, downsideDeviation)
  ELSE Num(0)

\* BacktestingEngine.calculateAdvancedMetrics (the Sortino ratio)
CalculateAdvancedMetrics(trs, summary) ==
  [sortinoRatio |-> SortinoRatio(summary, DownsideDeviation(NegativeReturns(trs)))]

\* the BacktestResult runBacktest returns after its loop
BacktestResultOf(cfg, trs, cap, maxDd, curve) ==
  The({[summary |-> summary,
        trades |-> trs,
        equity_curve |-> curve,
        metrics |-> CalculateAdvancedMetrics(trs, summary),
        config |-> cfg] :
         summary \in {CalculateSummary(trs, cfg.initialCapital, cap, maxDd)}})

\* index of the last bar the loop of runBacktest iterates
LastIndex(data) == Len(data) - 2

\* the filtered bars of every config of a known symbol, tabulated (@@ builds
\* the table once instead of filtering again at every use)
FilteredFor == [cfg \in Configs |-> FilterByDate(HistoricalData, cfg)] @@ << >>

\* the bars of the run
FilteredData == IF config.symbol = KnownSymbol THEN FilteredFor[config] ELSE << >>

\* the state runBacktest sets up once the data has passed validation
BeginLoop(cfg) ==
  /\ pc' = "Running"
  /\ config' = cfg
  /\ i' = WarmUp
  /\ capital' = Num(cfg.initialCapital)
  /\ maxCapital' = Num(cfg.initialCapital)
  /\ maxDrawdown' = Num(0)
  /\ currentDrawdown' = Num(0)
  /\ trades' = << >>
  /\ equityCurve' = << >>
  /\ decisions' = << >>

\* runBacktest, from the call to the first await of the loop: the lookup
\* of the series, the date filter and the validation
StartRun(cfg) ==
  /\ pc = "Initialized"
  /\ UNCHANGED <<activeStrategies, lastEval, now, result, prior>>
  /\ UNCHANGED callVars
  /\ IF cfg.symbol # KnownSymbol \/ Insufficient(Len(FilteredFor[cfg]))
     THEN /\ pc' = "Failed"
          /\ config' = cfg
          /\ UNCHANGED <<ind, i, capital, maxCapital, maxDrawdown,
                         currentDrawdown, trades, equityCurve, decisions>>
     ELSE /\ BeginLoop(cfg)
          /\ ind' \in [HotOffsets -> Readings]

\* a second runBacktest call with the config of the completed run: the same
\* bars, hence the same indicator values
Rerun ==
  /\ pc = "Completed"
  /\ prior = NoResult
  /\ prior' = result
  /\ result' = NoResult
  /\ BeginLoop(config)
  /\ UNCHANGED <<activeStrategies, lastEval, now, ind>>
  /\ UNCHANGED callVars

\* whether bar idx is one of the last HotBars iterated bars, and which
IsHot(idx) == idx > LastIndex(FilteredData) - HotBars
HotOffset(idx) == idx - (LastIndex(FilteredData) - HotBars)

\* calculateATR on a window of stored bars: a number, as the bars carry
\* high, low and close and the window has more than 14 of them
WindowAtr == Num(2)

\* market data of the window ending at bar idx
WindowAt(idx) ==
  [latest |-> FilteredData[idx + 1],
   hasNull |-> FALSE,
   ind |-> IF IsHot(idx) THEN ind[HotOffset(idx)] ELSE FlatReading,
   atr |-> WindowAtr]

DrawsAt(idx) == IF pc = "Running" /\ IsHot(idx) THEN Draws ELSE {"below"}

\* the bars carry no price, so MachineLearningStrategy.analyze raises while
\* it builds its prompt and the collaborator's answer is never read
BarResponses == {Failing("raises")}

\* the state after the loop: summary and result, or the next iteration
EndOfIteration(trs, cap, maxDd, curve) ==
  IF i + 1 <= LastIndex(FilteredData)
  THEN /\ pc' = "Running"
       /\ result' = result
  ELSE /\ pc' = "Completed"
       /\ result' = BacktestResultOf(config, trs, cap, maxDd, curve)

\* one iteration of the loop of runBacktest whose try block completes;
\* clock is what Date.now() reads when a trade is recorded
\* the iteration from the consensus signal on
TradeOnConsensus(clock, consensusSignal) ==
  /\ LET currentBar == FilteredData[i + 1]
         nextBar == FilteredData[i + 2]
         traded == Traded(consensusSignal)
         trade == TradeOf(config, i, clock, capital, consensusSignal, currentBar, nextBar)
         newCapital == IF traded THEN JsAdd(capital, trade.profitLoss) ELSE capital
         newMaxCapital == IF traded THEN JsMax(maxCapital, newCapital) ELSE maxCapital
         newCurrent == IF traded THEN DrawdownOf(newMaxCapital, newCapital) ELSE currentDrawdown
         newMaxDrawdown == IF traded THEN JsMax(maxDrawdown, newCurrent) ELSE maxDrawdown
         newTrades == IF traded THEN Append(trades, trade) ELSE trades
         newCurve == PushEquity(equityCurve, traded, currentBar, newCapital, newCurrent)
     IN /\ trades' = newTrades
        /\ capital' = newCapital
        /\ maxCapital' = newMaxCapital
        /\ currentDrawdown' = newCurrent
        /\ maxDrawdown' = newMaxDrawdown
        /\ equityCurve' = newCurve
        /\ decisions' = Append(decisions, consensusSignal.action)
        /\ now' = IF traded THEN clock ELSE now
        /\ EndOfIteration(newTrades, newCapital, newMaxDrawdown, newCurve)
  /\ i' = i + 1

ProcessBar(resp, draw, clock) ==
  /\ pc = "Running"
  /\ i <= LastIndex(FilteredData)
  /\ clock >= now
  /\ TradeOnConsensus(clock,
                      GetConsensusSignal(activeStrategies, WindowAt(i), resp, draw).signal)
  /\ UNCHANGED <<activeStrategies, lastEval, config, ind, prior>>
  /\ UNCHANGED callVars

\* a rejection that ends the run instead of being caught
ProcessBarAborted ==
  /\ pc = "Running"
  /\ i <= LastIndex(FilteredData)
  /\ IsHot(i)
  /\ pc' = "Failed"
  /\ decisions' = Append(decisions, "error")
  /\ UNCHANGED callVars
  /\ UNCHANGED <<activeStrategies, lastEval, now, config, ind, i, prior, trades,
                 capital, maxCapital, currentDrawdown, maxDrawdown, equityCurve,
                 result>>

\* one iteration whose awaited call into the strategy manager rejects: the
\* catch block logs the error and the loop goes on
ProcessBarRejected ==
  /\ pc = "Running"
  /\ i <= LastIndex(FilteredData)
  /\ IsHot(i)
  /\ decisions' = Append(decisions, "error")
  /\ EndOfIteration(trades, capital, maxDrawdown, equityCurve)
  /\ i' = i + 1
  /\ UNCHANGED callVars
  /\ UNCHANGED <<activeStrategies, lastEval, now, config, ind, prior, trades,
                 capital, maxCapital, currentDrawdown, maxDrawdown, equityCurve>>

\* ------------------------------------------------------------------------
\* Optimizer
\* ------------------------------------------------------------------------
\* the market data of the window ending at bar idx of the bars of cfg, when
\* the windows of the last bars have the indicator values `readings`
WindowOf(cfg, readings, idx) ==
  LET last == LastIndex(FilteredFor[cfg])
  IN [latest |-> FilteredFor[cfg][idx + 1],
      hasNull |-> FALSE,
      ind |-> IF idx > last - HotBars THEN readings[idx - (last - HotBars)] ELSE FlatReading,
      atr |-> WindowAtr]

\* the locals of runBacktest before the loop
LoopStart(cfg) ==
  [capital |-> Num(cfg.initialCapital), maxCapital |-> Num(cfg.initialCapital),
   maxDrawdown |-> Num(0), currentDrawdown |-> Num(0),
   trades |-> << >>, equityCurve |-> << >>]

\* one iteration of the loop of runBacktest on the locals st; draws gives
\* the arbitrage draw of each of the last bars
LoopStepOnConsensus(st, cfg, clock, idx, consensusSignal) ==
  LET currentBar == FilteredFor[cfg][idx + 1]
      nextBar == FilteredFor[cfg][idx + 2]
      traded == Traded(consensusSignal)
      trade == TradeOf(cfg, idx, clock, st.capital, consensusSignal, currentBar, nextBar)
      newCapital == IF traded THEN JsAdd(st.capital, trade.profitLoss) ELSE st.capital
      newMaxCapital == IF traded THEN JsMax(st.maxCapital, newCapital) ELSE st.maxCapital
      newCurrent == IF traded THEN DrawdownOf(newMaxCapital, newCapital)
                    ELSE st.currentDrawdown
      newMaxDrawdown == IF traded THEN JsMax(st.maxDrawdown, newCurrent) ELSE st.maxDrawdown
  IN [capital |-> newCapital, maxCapital |-> newMaxCapital,
      maxDrawdown |-> newMaxDrawdown, currentDrawdown |-> newCurrent,
      trades |-> IF traded THEN Append(st.trades, trade) ELSE st.trades,
      equityCurve |-> PushEquity(st.equityCurve, traded, currentBar, newCapital, newCurrent)]

\* the arbitrage draw of the iteration of bar idx
DrawOf(cfg, draws, idx) ==
  LET last == LastIndex(FilteredFor[cfg])
  IN IF idx > last - HotBars THEN draws[idx - (last - HotBars)] ELSE "below"

LoopStep(st, cfg, active, readings, draws, clock, idx) ==
  The({LoopStepOnConsensus(st, cfg, clock, idx, consensusSignal) :
         consensusSignal \in
           {GetConsensusSignal(active, WindowOf(cfg, readings, idx), Failing("raises"),
                               DrawOf(cfg, draws, idx)).signal}})

RECURSIVE LoopFrom(_, _, _, _, _, _, _)
LoopFrom(st, cfg, active, readings, draws, clock, idx) ==
  IF idx > LastIndex(FilteredFor[cfg])
  THEN st
  ELSE The({LoopFrom(next, cfg, active, readings, draws, clock, idx + 1) :
              next \in {LoopStep(st, cfg, active, readings, draws, clock, idx)}})

\* the BacktestResult built from the locals at the end of the loop
ResultOf(cfg, end) ==
  BacktestResultOf(cfg, end.trades, end.capital, end.maxDrawdown, end.equityCurve)

\* BacktestingEngine.runBacktest as one call: whether it threw, and the
\* result it returned
RunBacktest(cfg, active, readings, draws, clock) ==
  IF cfg.symbol # KnownSymbol \/ Insufficient(Len(FilteredFor[cfg]))
  THEN [threw |-> TRUE, result |-> NoResult]
  ELSE [threw |-> FALSE,
        result |-> The({ResultOf(cfg, end) :
                          end \in {LoopFrom(LoopStart(cfg), cfg, active, readings, draws,
                                            clock, WarmUp)}})]

\* BacktestingEngine.calculateFitness, in thousandths: each normalized
\* metric lies between 0 and 1000 and the weights are 300, 250, 200, 150, 100
CalculateFitness(summary) ==
  LET normalizedReturn ==
        JsMin(JsMax(JsMul(summary.totalReturnPercent, Num(10)), Num(0)), Num(1000))
      normalizedWinRate == JsMul(summary.winRate, Num(10))
      normalizedSharpe ==
        JsMin(JsMax(JsDiv(JsMul(summary.sharpeRatio, Num(1000)), Num(3)), Num(0)), Num(1000))
      normalizedDrawdown ==
        JsMax(JsSub(Num(1000), JsMul(summary.maxDrawdown, Num(20))), Num(0))
      normalizedProfitFactor ==
        JsMin(JsMax(JsDiv(JsMul(summary.profitFactor, Num(1000)), Num(3)), Num(0)), Num(1000))
  IN JsDiv(JsAdd(JsAdd(JsAdd(JsAdd(JsMul(normalizedReturn, Num(300)),
                                   JsMul(normalizedWinRate, Num(250))),
                             JsMul(normalizedSharpe, Num(200))),
                       JsMul(normalizedDrawdown, Num(150))),
                 JsMul(normalizedProfitFactor, Num(100))),
           Num(1000))

\* Parameter ranges are a list of <<key, values>> in the order of
\* Object.keys; a combination is the list of its <<key, value>> pairs.
RECURSIVE GenerateParameterCombinations(_)
RECURSIVE CombinationsFrom(_, _, _, _)
\* each value of the first key paired with the first remaining combination only
CombinationsWithFirst(key, values, k, remaining) ==
  IF Len(remaining) = 0
  THEN << >>
  ELSE [j \in 1..(Len(values) - k + 1) |-> <<<<key, values[j + k - 1]>>>> \o remaining[1]]

\* the combinations of the values k.. of the first key with the combinations
\* `remaining` of the other keys
CombinationsFrom(key, values, k, remaining) ==
  IF k > Len(values)
  THEN << >>
  ELSE [j \in 1..Len(remaining) |-> <<<<key, values[k]>>>> \o remaining[j]]
         \o CombinationsFrom(key, values, k + 1, remaining)

\* BacktestingEngine.generateParameterCombinations
GenerateParameterCombinations(ranges) ==
  IF Len(ranges) = 0
  THEN << << >> >>
  ELSE CombinationsFrom(ranges[1][1], ranges[1][2], 1,
                        GenerateParameterCombinations(Tail(ranges)))

\* results.sort((a, b) => b.fitness - a.fitness): a stable sort in which b
\* goes before a only when b.fitness - a.fitness is a number above 0 (a NaN
\* difference counts as 0)
RECURSIVE InsertByFitness(_, _)
InsertByFitness(sorted, x) ==
  IF Len(sorted) = 0
  THEN <<x>>
  ELSE LET lastOne == sorted[Len(sorted)]
       IN IF JsGt(JsSub(x.fitness, lastOne.fitness), Num(0))
          THEN Append(InsertByFitness(SubSeq(sorted, 1, Len(sorted) - 1), x), lastOne)
          ELSE Append(sorted, x)

RECURSIVE SortByFitness(_)
SortByFitness(results) ==
  IF Len(results) = 0
  THEN << >>
  ELSE InsertByFitness(SortByFitness(SubSeq(results, 1, Len(results) - 1)),
                       results[Len(results)])

\* the parameter ranges of the optimization requests
ParameterRanges ==
  { << >>,
    << <<"a", <<1, 2>> >>, <<"b", <<10, 20>> >> >>,
    << <<"a", <<1, 2>> >> >>,
    << <<"a", << >> >>, <<"b", <<10>> >> >> }

\* the arbitrage draws of the last bars of a run
DrawsOfRun ==
  IF "arbitrage" \in activeStrategies THEN [HotOffsets -> Draws]
  ELSE {[k \in HotOffsets |-> "below"]}

\* what runBacktest does for the config, strategies and bars of a sweep, for
\* each sequence of arbitrage draws: whether it throws and the summary of
\* its result (the wall clock enters the trade ids only)
OutcomeOf(run) == [threw |-> run.threw, summary |-> run.result.summary]

RunOutcomes(cfg, readings) ==
  [draws \in DrawsOfRun |->
     The({OutcomeOf(run) :
            run \in {RunBacktest(cfg, activeStrategies, readings, draws, now)}})]

\* the state of optimizeStrategy when its loop ends: the sorted results
\* are returned
Returned(o) == [o EXCEPT !.pc = "returned", !.results = SortByFitness(o.results)]

\* optimizeStrategy, from the call to the first runBacktest it awaits
StartOptimize(cfg, ranges, readings) ==
  /\ opt.pc = "idle"
  /\ pc = "Initialized"
  /\ LET combinations == GenerateParameterCombinations(ranges)
         started == [pc |-> "sweeping", config |-> cfg, ranges |-> ranges,
                     readings |-> readings, outcomes |-> RunOutcomes(cfg, readings),
                     combinations |-> combinations,
                     k |-> 1, evaluated |-> << >>, threw |-> << >>, results |-> << >>,
                     cancelled |-> FALSE, launchedAtCancel |-> 0]
     IN opt' = IF Len(combinations) = 0 THEN Returned(started) ELSE started
  /\ UNCHANGED <<activeStrategies, lastEval, now, ml, calc, calls, svc>>
  /\ UNCHANGED runVars

\* the entry optimizeStrategy pushes for a completed run; the
\* BacktestResult is kept by its summary, which is all calculateFitness reads
OptimizationResult(parameters, run) ==
  [parameters |-> parameters,
   summary |-> run.summary,
   fitness |-> CalculateFitness(run.summary)]

\* the loop of optimizeStrategy past an iteration
AfterCombination(o) ==
  IF o.k > Len(o.combinations) THEN Returned(o) ELSE o

\* one iteration of the loop of optimizeStrategy: the backtest of the next
\* combination, its fitness and its entry, or the catch of a failed run
OptimizeStep(draws) ==
  /\ opt.pc = "sweeping"
  /\ LET parameters == opt.combinations[opt.k]
         run == opt.outcomes[draws]
         counted == [opt EXCEPT !.k = @ + 1, !.evaluated = Append(@, parameters),
                                !.threw = Append(@, run.threw)]
     IN opt' = AfterCombination(
                 IF run.threw
                 THEN counted
                 ELSE [counted EXCEPT !.results = Append(@, OptimizationResult(parameters, run))])
  /\ UNCHANGED <<activeStrategies, lastEval, now, ml, calc, calls, svc>>
  /\ UNCHANGED runVars

\* a failed run that ends the sweep instead of being caught
OptimizeStepAborted ==
  /\ opt.pc = "sweeping"
  /\ opt' = [opt EXCEPT !.pc = "failed",
                        !.evaluated = Append(@, opt.combinations[opt.k]),
                        !.threw = Append(@, TRUE)]
  /\ UNCHANGED <<activeStrategies, lastEval, now, ml, calc, calls, svc>>
  /\ UNCHANGED runVars

\* one iteration of the loop whose awaited runBacktest rejects for a reason
\* of its own: the catch block logs the error and the loop goes on
OptimizeStepRejected ==
  /\ opt.pc = "sweeping"
  /\ opt' = AfterCombination([opt EXCEPT !.k = @ + 1,
                                         !.evaluated = Append(@, opt.combinations[opt.k]),
                                         !.threw = Append(@, TRUE)])
  /\ UNCHANGED <<activeStrategies, lastEval, now, ml, calc, calls, svc>>
  /\ UNCHANGED runVars

\* ------------------------------------------------------------------------
\* Specifications
\* ------------------------------------------------------------------------
\* the parameter combinations a sweep hands to its runs
ParameterCombinations ==
  UNION {{GenerateParameterCombinations(ranges)[k] :
            k \in 1..Len(GenerateParameterCombinations(ranges))} : ranges \in ParameterRanges}

\* testConfig = { ...config, parameters }
TestConfig(cfg, parameters) ==
  [symbol |-> cfg.symbol, startDate |-> cfg.startDate, endDate |-> cfg.endDate,
   initialCapital |-> cfg.initialCapital, parameters |-> parameters]

\* the fields of its config that runBacktest reads
ReadOf(testConfig) ==
  [symbol |-> testConfig.symbol, startDate |-> testConfig.startDate,
   endDate |-> testConfig.endDate, initialCapital |-> testConfig.initialCapital]

\* the result with the config of the call echoed in it
Echoing(testConfig, run) ==
  [threw |-> run.threw,
   result |-> IF run.threw THEN run.result ELSE [run.result EXCEPT !.config = testConfig]]

\* a run whose technical strategy is configured from config.parameters, with
\* thresholds that no indicator value crosses
RunBacktestConfigured(testConfig, active, readings, draws, clock) ==
  The({Echoing(testConfig, run) :
         run \in {RunBacktest(ReadOf(testConfig), active,
                              IF Len(testConfig.parameters) = 0 THEN readings
                              ELSE [k \in HotOffsets |-> FlatReading],
                              draws, clock)}})

\* runBacktest on a config that carries parameters: the strategies are those
\* the manager constructed with its default parameters
RunBacktestOf(testConfig, active, readings, draws, clock) ==
  The({Echoing(testConfig, run) :
         run \in {RunBacktest(ReadOf(testConfig), active, readings, draws, clock)}})

\* two runBacktest calls that differ in config.parameters only
ParametersRequest(cfg, first, second, readings, draws) ==
  /\ calc = NoCalc
  /\ first # second
  /\ calc' = [fn |-> "runBacktest", config |-> cfg, readings |-> readings, draws |-> draws,
              first |-> RunBacktestOf(TestConfig(cfg, first), activeStrategies,
                                      readings, draws, now),
              second |-> RunBacktestOf(TestConfig(cfg, second), activeStrategies,
                                       readings, draws, now),
              parameters |-> <<first, second>>]
  /\ UNCHANGED <<activeStrategies, lastEval, now, ml, opt, calls, svc>>
  /\ UNCHANGED runVars

\* the requester of the optimization cancels it (the client of the route
\* gives the request up); optimizeStrategy takes no signal and the engine
\* has no cancel operation, so nothing of the sweep changes.  The run of
\* combination k is in flight at that moment.
CancelRequested ==
  /\ opt.pc = "sweeping"
  /\ ~opt.cancelled
  /\ opt' = [opt EXCEPT !.cancelled = TRUE, !.launchedAtCancel = opt.k]
  /\ UNCHANGED <<activeStrategies, lastEval, now, ml, calc, calls, svc>>
  /\ UNCHANGED runVars

\* ------------------------------------------------------------------------
\* The trading execution service
\* ------------------------------------------------------------------------
\* (orders are numbered in the order of their creation; bid, ask and last
\* are one price, executions carry no slippage, and quotients are truncated)
NoMarketSymbol == "XYZ/USD"
OrderTypes == {"market", "limit"}
Request(symbol, type, quantity, orderType, price) ==
  [symbol |-> symbol, type |-> type, quantity |-> quantity, orderType |-> orderType,
   price |-> price]
\* market orders of both types, limit buys, and a request for each refusal
\* that does not depend on the state
Requests ==
  {Request(KnownSymbol, type, quantity, "market", FALSE) :
     type \in {"buy", "sell"}, quantity \in 1..2}
  \cup {Request(KnownSymbol, "buy", 1, "limit", TRUE),
        Request(KnownSymbol, "buy", 1, "limit", FALSE),
        Request(KnownSymbol, "buy", 0, "market", FALSE),
        Request(NoMarketSymbol, "buy", 1, "market", FALSE)}
\* whether the portfolio holds the cash of a buy, and whether the quote
\* meets the limit price of a limit order
FundsOf(request) == IF request.type = "buy" THEN BOOLEAN ELSE {TRUE}
MetOf(request) == IF request.orderType = "limit" THEN BOOLEAN ELSE {TRUE}

\* this.positions.get(symbol): the index of the position, 0 for undefined
PositionIndex(positions, symbol) ==
  IF \E k \in 1..Len(positions) : positions[k].symbol = symbol
  THEN CHOOSE k \in 1..Len(positions) : positions[k].symbol = symbol
  ELSE 0

\* TradingExecutionService.validateOrder: the reason of the refusal, or valid
ValidateOrder(request, funds, positions) ==
  LET at == PositionIndex(positions, request.symbol)
  IN IF request.symbol # KnownSymbol THEN "Market data not available for symbol"
     ELSE IF request.quantity <= 0 THEN "Quantity must be positive"
     ELSE IF request.orderType = "limit" /\ ~request.price THEN "Limit orders require a price"
     ELSE IF request.type = "buy" /\ ~funds THEN "Insufficient funds"
     ELSE IF request.type = "sell" /\ (at = 0 \/ positions[at].quantity < request.quantity)
          THEN "Insufficient position size"
     ELSE "valid"

\* the Order executeOrder creates
OrderOf(orderId, request) ==
  [id |-> orderId, symbol |-> request.symbol, type |-> request.type,
   orderType |-> request.orderType, quantity |-> request.quantity,
   filledQuantity |-> 0, status |-> "pending", averagePrice |-> Undef,
   fees |-> Num(0)]

\* the ExecutionResult of a fill of the order at the price
Filled(order, price) ==
  [success |-> TRUE, status |-> "executed", executedPrice |-> Num(price),
   executedQuantity |-> order.quantity,
   fees |-> JsDiv(JsMul(Num(price), Num(order.quantity)), Num(FeeDivisor))]

\* the ExecutionResult of an order that is left waiting
LeftPending == [NoExecution EXCEPT !.status = "pending"]

\* executeMarketOrder and executeLimitOrder: met tells whether the quote
\* satisfies the limit price
ExecutionOf(order, price, met) ==
  IF order.orderType = "market" THEN Filled(order, price)
  ELSE IF met THEN Filled(order, price)
  ELSE LeftPending

\* the Position updatePosition creates for a first buy
NewPosition(order, executionResult) ==
  [symbol |-> order.symbol, quantity |-> executionResult.executedQuantity,
   averagePrice |-> executionResult.executedPrice,
   currentPrice |-> executionResult.executedPrice,
   unrealizedPnL |-> Num(0), realizedPnL |-> Num(0), status |-> "open",
   trades |-> <<order.id>>]

\* a buy added to the existing position
Bought(position, order, executionResult) ==
  LET totalQuantity == position.quantity + executionResult.executedQuantity
      totalCost == JsAdd(JsMul(position.averagePrice, Num(position.quantity)),
                         JsMul(executionResult.executedPrice,
                               Num(executionResult.executedQuantity)))
  IN [position EXCEPT !.quantity = totalQuantity,
                      !.averagePrice = JsDiv(totalCost, Num(totalQuantity)),
                      !.trades = Append(@, order.id)]

\* a sell taken from the existing position, which is closed at quantity <= 0
Sold(position, order, executionResult) ==
  LET realizedPnL == JsMul(JsSub(executionResult.executedPrice, position.averagePrice),
                           Num(executionResult.executedQuantity))
      quantity == position.quantity - executionResult.executedQuantity
  IN [position EXCEPT !.realizedPnL = JsAdd(@, realizedPnL),
                      !.quantity = quantity,
                      !.trades = Append(@, order.id),
                      !.status = IF quantity <= 0 THEN "closed" ELSE @]

\* TradingExecutionService.updatePosition
UpdatePosition(positions, order, executionResult) ==
  LET at == PositionIndex(positions, order.symbol)
  IN IF order.type = "buy"
     THEN IF at # 0
          THEN [positions EXCEPT ![at] = Bought(@, order, executionResult)]
          ELSE Append(positions, NewPosition(order, executionResult))
     ELSE IF at # 0
          THEN [positions EXCEPT ![at] = Sold(@, order, executionResult)]
          ELSE positions

\* executeOrder, from the call to its first await: the validation, the
\* order, and the execute function of the order type, whose body runs to its
\* end before the await suspends the call
ExecuteOrder(request, funds, met) ==
  /\ IF ValidateOrder(request, funds, svc.positions) # "valid"
     THEN UNCHANGED svc
     ELSE /\ Len(svc.orders) < MaxOrders
          /\ LET order == OrderOf(Len(svc.orders) + 1, request)
             IN svc' = [svc EXCEPT
                  !.orders = Append(@, order),
                  !.calls = Append(@, [pc |-> "awaiting",
                                       executionResult |-> ExecutionOf(order, svc.last, met)])]
  /\ UNCHANGED <<runVars, engineVars, calls>>

\* the order after `order.status = executionResult.status` and the
\* assignments under `if (executionResult.executedPrice)`
OrderAfter(order, executionResult) ==
  IF IsNum(executionResult.executedPrice)
  THEN [order EXCEPT !.status = executionResult.status,
                     !.averagePrice = executionResult.executedPrice,
                     !.filledQuantity = executionResult.executedQuantity,
                     !.fees = executionResult.fees]
  ELSE [order EXCEPT !.status = executionResult.status]

\* executeOrder, from the end of its await to its return: the status of the
\* order, the position, the result
ExecuteOrderResumes(orderId) ==
  /\ orderId \in 1..Len(svc.orders)
  /\ svc.calls[orderId].pc = "awaiting"
  /\ LET executionResult == svc.calls[orderId].executionResult
         order == OrderAfter(svc.orders[orderId], executionResult)
     IN svc' = [svc EXCEPT
          !.orders[orderId] = order,
          !.positions = IF executionResult.success /\ executionResult.executedQuantity # 0
                        THEN UpdatePosition(@, order, executionResult) ELSE @,
          !.calls[orderId].pc = "returned"]
  /\ UNCHANGED <<runVars, engineVars, calls>>

\* what cancelOrder returns
CancelReturns(orderId) ==
  orderId \in 1..Len(svc.orders) /\ svc.orders[orderId].status = "pending"

\* TradingExecutionService.cancelOrder
CancelOrder(orderId) ==
  /\ IF CancelReturns(orderId)
     THEN svc' = [svc EXCEPT !.orders[orderId].status = "cancelled",
                             !.cancels = @ \cup {orderId}]
     ELSE UNCHANGED svc
  /\ UNCHANGED <<runVars, engineVars, calls>>

\* TradingExecutionService.updatePositionPrices
UpdatePositionPrices(positions, symbol, currentPrice) ==
  LET at == PositionIndex(positions, symbol)
  IN IF at # 0 /\ positions[at].status = "open"
     THEN [positions EXCEPT
             ![at].currentPrice = Num(currentPrice),
             ![at].unrealizedPnL = JsMul(JsSub(Num(currentPrice), positions[at].averagePrice),
                                         Num(positions[at].quantity))]
     ELSE positions

\* one tick of the market simulation: the new quote and the open position
\* priced at it
MarketTick(newLast) ==
  /\ svc' = [svc EXCEPT !.last = newLast,
                        !.positions = UpdatePositionPrices(@, KnownSymbol, newLast)]
  /\ UNCHANGED <<runVars, engineVars, calls>>

\* getOpenPositions and getPendingOrders
GetOpenPositions == SelectSeq(svc.positions, LAMBDA position : position.status = "open")
GetPendingOrders == SelectSeq(svc.orders, LAMBDA order : order.status = "pending")

\* ------------------------------------------------------------------------
\* Concurrent runs
\* ------------------------------------------------------------------------
\* (several runBacktest calls in progress on the one engine and the one
\* strategy manager: each call holds its locals, and each await of its loop
\* lets the other calls run)

\* the configs of the concurrent calls
CallConfigs == {cfg \in Configs : cfg.startDate = 1}

\* the strategy outcomes on the last bars of a call
CallReadings == {[k \in HotOffsets |-> reading] : reading \in {BullReading, BearReading}}

\* the arbitrage draws of a call so far, completed with draws that are not
\* above the threshold
DrawsOfCall(drawn) ==
  [k \in HotOffsets |-> IF k <= Len(drawn) THEN drawn[k] ELSE "below"]

\* the draws open to the iteration of bar idx of the call
CallDrawsAt(call) ==
  IF /\ call.pc = "running"
     /\ call.idx > LastIndex(FilteredFor[call.config]) - HotBars
     /\ "arbitrage" \in activeStrategies
  THEN Draws ELSE {"below"}

\* runBacktest, from the call to the first await of its loop
CallRunBacktest(r, cfg, readings) ==
  /\ calls[r].pc = "idle"
  /\ calls' = [calls EXCEPT ![r] =
       IF cfg.symbol # KnownSymbol \/ Insufficient(Len(FilteredFor[cfg]))
       THEN [pc |-> "threw", config |-> cfg]
       ELSE [pc |-> "running", config |-> cfg, readings |-> readings,
             idx |-> WarmUp, drawn |-> << >>, interleaved |-> FALSE,
             st |-> LoopStart(cfg)]]
  /\ UNCHANGED <<runVars, engineVars, svc>>

\* the call, knowing whether another call ran between two of its iterations
Beside(r) ==
  [calls[r] EXCEPT !.interleaved = @ \/ \E q \in RunIds \ {r} :
                                           calls[q].pc = "running" /\ calls[q].idx > WarmUp]

\* the call after the iteration of bar idx that left the locals next
AfterIteration(call, next, draw) ==
  LET last == LastIndex(FilteredFor[call.config])
      drawn == IF call.idx > last - HotBars THEN Append(call.drawn, draw) ELSE call.drawn
  IN IF call.idx = last
     THEN [pc |-> "returned", config |-> call.config, readings |-> call.readings,
           drawn |-> drawn, interleaved |-> call.interleaved,
           result |-> ResultOf(call.config, next)]
     ELSE [call EXCEPT !.idx = call.idx + 1, !.drawn = drawn, !.st = next]

\* an iteration that takes its capital from the call that is running beside it
CallIterationSharedLedger(r, draw) ==
  /\ calls[r].pc = "running"
  /\ LET call == Beside(r)
         beside == {q \in RunIds \ {r} : calls[q].pc = "running"}
         shared == IF beside = {} THEN call.st
                   ELSE [call.st EXCEPT !.capital = calls[The(beside)].st.capital]
     IN calls' = [calls EXCEPT ![r] =
          The({AfterIteration(call, next, draw) :
                 next \in {LoopStep(shared, call.config, activeStrategies,
                                    call.readings, DrawsOfCall(Append(call.drawn, draw)),
                                    now, call.idx)}})]
  /\ UNCHANGED <<runVars, engineVars, svc>>

\* one iteration of the loop of a call, from one await of the strategy
\* manager to the next; the last iteration returns the result
CallIteration(r, draw) ==
  /\ calls[r].pc = "running"
  /\ LET call == Beside(r)
     IN calls' = [calls EXCEPT ![r] =
          The({AfterIteration(call, next, draw) :
                 next \in {LoopStep(call.st, call.config, activeStrategies,
                                    call.readings, DrawsOfCall(Append(call.drawn, draw)),
                                    now, call.idx)}})]
  /\ UNCHANGED <<runVars, engineVars, svc>>

\* the caller has taken the outcome of the call
CallSettled(r) ==
  /\ calls[r].pc \in {"returned", "threw"}
  /\ calls' = [calls EXCEPT ![r] = NoRun]
  /\ UNCHANGED <<runVars, engineVars, svc>>

Clocks == 0..MaxClock

\* the backtesting engine over the strategy manager
Next ==
  \/ \E name \in StrategyNames : ActivateStrategy(name)
  \/ \E name \in StrategyNames : DeactivateStrategy(name)
  \/ \E cfg \in Configs : StartRun(cfg)
  \/ \E resp \in BarResponses, draw \in DrawsAt(i), clock \in Clocks :
        ProcessBar(resp, draw, clock)
  \/ Rerun

Spec == Init /\ [][Next]_vars

\* one run of the engine, with iterations whose strategy-manager call rejects
NextFault ==
  \/ \E name \in StrategyNames : ActivateStrategy(name)
  \/ \E name \in StrategyNames : DeactivateStrategy(name)
  \/ \E cfg \in Configs : StartRun(cfg)
  \/ \E resp \in BarResponses, draw \in DrawsAt(i), clock \in Clocks :
        ProcessBar(resp, draw, clock)
  \/ ProcessBarRejected

SpecFault == Init /\ [][NextFault]_vars

\* the strategy manager serving analyze requests
NextManager ==
  \/ \E name \in StrategyNames : ActivateStrategy(name)
  \/ \E name \in StrategyNames : DeactivateStrategy(name)
  \/ \E md \in MarketDatas, resp \in MlResponses, draw1 \in Draws, draw2 \in Draws :
        AnalyzeRequest(md, resp, draw1, draw2)

SpecManager == Init /\ [][NextManager]_vars

\* optimization requests over the strategy manager
NextOptimizer ==
  \/ \E name \in StrategyNames : ActivateStrategy(name)
  \/ \E name \in StrategyNames : DeactivateStrategy(name)
  \/ \E cfg \in Configs, ranges \in ParameterRanges, readings \in [HotOffsets -> Readings] :
        StartOptimize(cfg, ranges, readings)
  \/ \E draws \in DrawsOfRun : OptimizeStep(draws)

SpecOptimizer == Init /\ [][NextOptimizer]_vars

\* the same, with runs that reject for a reason of their own
NextOptimizerFault ==
  \/ NextOptimizer
  \/ OptimizeStepRejected

SpecOptimizerFault == Init /\ [][NextOptimizerFault]_vars

\* optimization requests that their requester may cancel
NextOptimizerCancel ==
  \/ NextOptimizer
  \/ CancelRequested

SpecOptimizerCancel == Init /\ [][NextOptimizerCancel]_vars

\* pairs of runs on configs that differ in their parameters
NextParameters ==
  \/ \E name \in StrategyNames : ActivateStrategy(name)
  \/ \E name \in StrategyNames : DeactivateStrategy(name)
  \/ \E cfg \in CallConfigs, first \in ParameterCombinations,
        second \in ParameterCombinations, readings \in CallReadings,
        draws \in DrawsOfRun :
        ParametersRequest(cfg, first, second, readings, draws)

SpecParameters == Init /\ [][NextParameters]_vars

\* analyze calls to the technical strategy
NextTechnical == \E md \in TechnicalDatas : TechnicalRequest(md)

SpecTechnical == Init /\ [][NextTechnical]_vars

\* applications of calculateRSI
NextRsi ==
  \E service \in RsiServices, series \in RsiSeries, period \in RsiPeriods :
    RsiRequest(service, series, period)

SpecRsi == Init /\ [][NextRsi]_vars

\* analyze calls of the machine-learning strategy and what its collaborator
\* does with them
NextMl ==
  \/ \E md \in MlMarketDatas : MlAnalyzeCall(md)
  \/ \E ok \in BOOLEAN : ClientCreated(ok)
  \/ \E answer \in MlAnswers : CollaboratorAnswers(answer)
  \/ MlResume

SpecMl == Init /\ [][NextMl]_vars

\* The event loop runs the continuation of an await that has settled; the
\* collaborator is under no obligation to settle anything.
SpecMlLive == SpecMl /\ WF_vars(MlResume)

\* runBacktest calls in progress at once on the one engine
NextConcurrent ==
  \/ \E r \in RunIds, cfg \in CallConfigs, readings \in CallReadings :
        CallRunBacktest(r, cfg, readings)
  \/ \E r \in RunIds : \E draw \in CallDrawsAt(calls[r]) : CallIteration(r, draw)
  \/ \E r \in RunIds : CallSettled(r)

SpecConcurrent == Init /\ [][NextConcurrent]_vars

\* the execution service: executeOrder calls that overlap, cancellations
\* and market ticks
NextExecution ==
  \/ \E request \in Requests : \E funds \in FundsOf(request), met \in MetOf(request) :
        ExecuteOrder(request, funds, met)
  \/ \E orderId \in 1..MaxOrders : ExecuteOrderResumes(orderId)
  \/ \E orderId \in 1..MaxOrders : CancelOrder(orderId)
  \/ \E newLast \in Quotes : MarketTick(newLast)

SpecExecution == Init /\ [][NextExecution]_vars

\* ------------------------------------------------------------------------
\* Properties
\* ------------------------------------------------------------------------
\* number of the signals in sigs that carry action a
Tally(sigs, a) == Cardinality({k \in 1..Len(sigs) : sigs[k].action = a})

StrategiesOf(sigs) == {sigs[k].strategy : k \in 1..Len(sigs)}

\* C2: analyzeSymbol calls analyze on exactly the active strategies; a
\* strategy whose analyze throws contributes no signal and no vote, the
\* other active strategies' signals are returned, and neither analyzeSymbol
\* nor getConsensusSignal ends with the error.
C2_ThrowingStrategySkipped ==
  /\ lastEval.called = lastEval.active
  /\ ~lastEval.error
  /\ ~lastEval.consError
  /\ StrategiesOf(lastEval.signals) = lastEval.called \ lastEval.threw
  /\ Len(lastEval.signals) = Cardinality(lastEval.called \ lastEval.threw)
  /\ StrategiesOf(lastEval.consSignals) = lastEval.called \ lastEval.threw
  /\ Len(lastEval.consSignals) = Cardinality(lastEval.called \ lastEval.threw)

\* the technical strategy threw, a strategy was inactive, and the signal of
\* the remaining strategy was returned
C2_Witness ==
  /\ lastEval.threw = {"technical"}
  /\ lastEval.active = {"technical", "arbitrage"}
  /\ StrategiesOf(lastEval.signals) = {"arbitrage"}

\* the iterations (1 = the iteration of bar WarmUp) whose consensus was buy
\* or sell
NonHoldIterations == {j \in 1..Len(decisions) : decisions[j] \in {"buy", "sell"}}

\* C3: every iterated bar whose consensus is buy or sell records exactly one
\* trade, entered at that bar's timestamp and close and exited at the next
\* bar's timestamp and close; a bar whose consensus is hold or none records
\* no trade.
C3_OneBarRoundTrips ==
  pc \in {"Running", "Completed"} =>
    /\ Len(trades) = Cardinality(NonHoldIterations)
    /\ \A j \in NonHoldIterations :
         LET t == trades[Cardinality({m \in NonHoldIterations : m <= j})]
             bar == FilteredData[WarmUp + j]
             next == FilteredData[WarmUp + j + 1]
         IN /\ t.type = decisions[j]
            /\ t.entryTime = bar.timestamp
            /\ t.exitTime = next.timestamp
            /\ t.entryPrice = Num(bar.close)
            /\ t.exitPrice = Num(next.close)
            /\ t.id[2] = WarmUp + j - 1

\* a completed run with a hold bar followed by a traded bar
C3_Witness ==
  /\ pc = "Completed"
  /\ Len(trades) = 1
  /\ \E j \in 1..Len(decisions) : decisions[j] = "hold"
  /\ \E j \in 1..Len(decisions) : decisions[j] = "none"

RECURSIVE SumProfitLoss(_)
SumProfitLoss(trs) ==
  IF Len(trs) = 0 THEN Num(0) ELSE JsAdd(trs[1].profitLoss, SumProfitLoss(Tail(trs)))

\* C4: after every processed bar and at the end of the run the sum of the
\* trades' profitLoss equals capital minus initialCapital, and
\* summary.totalReturn equals that sum.
C4_LedgerConservation ==
  /\ pc \in {"Running", "Completed"} =>
       JsEq(SumProfitLoss(trades), JsSub(capital, Num(config.initialCapital)))
  /\ pc = "Completed" =>
       JsEq(result.summary.totalReturn, SumProfitLoss(result.trades))

\* C5: every recorded trade has quantity > 0.
C5_PositiveQuantity ==
  \A k \in 1..Len(trades) : JsGt(trades[k].quantity, Num(0))

\* C6: after a completed run the equity curve holds exactly one point per
\* iterated bar index (WarmUp to n-2), in bar order, traded or not.
C6_OneEquityPointPerBar ==
  pc = "Completed" =>
    /\ Len(result.equity_curve) = LastIndex(FilteredData) - WarmUp + 1
    /\ \A j \in 1..Len(result.equity_curve) :
         result.equity_curve[j].timestamp = FilteredData[WarmUp + j].timestamp

\* a completed run with exactly one trade among its iterated bars
C6_Witness ==
  /\ pc = "Completed"
  /\ Len(result.trades) = 1
  /\ Len(result.equity_curve) > HotBars

\* C7: at every point of a run maxDrawdown >= currentDrawdown >= 0 and both
\* lie within [0, 100].
C7_DrawdownBounds ==
  pc \in {"Running", "Completed"} =>
    /\ JsGe(maxDrawdown, currentDrawdown)
    /\ JsGe(currentDrawdown, Num(0))
    /\ JsGe(Num(100), maxDrawdown)

\* number of stored bars of the known symbol inside the config's date range
BarsInRange(cfg) ==
  Cardinality({k \in 1..TotalBars :
                 /\ HistoricalData[k].timestamp >= cfg.startDate
                 /\ HistoricalData[k].timestamp <= cfg.endDate})

\* C8: runBacktest fails, returning no result, exactly when the symbol has
\* no series or fewer than 50 bars fall inside the date range.
C8_FailsOnMissingOrShortData ==
  config # NoConfig =>
    /\ pc = "Failed" <=> (config.symbol # KnownSymbol \/ BarsInRange(config) < 50)
    /\ pc = "Failed" => result = NoResult /\ trades = << >>

\* a run refused for a date range that holds 10 bars
C8_Witness ==
  /\ pc = "Failed"
  /\ config.symbol = KnownSymbol
  /\ BarsInRange(config) = 10

\* C9: a run goes Initialized -> Running -> Completed, or Failed only at
\* validation for missing or insufficient data; an iteration whose
\* processing raised leaves capital, trades and the drawdown state as they
\* were and the loop goes on with the next bar.
C9_ErrorsAreSkipped ==
  [][ /\ pc = "Initialized" => pc' \in {"Initialized", "Running", "Failed"}
      /\ pc = "Running" => pc' \in {"Running", "Completed"}
      /\ pc = "Failed" => pc' = "Failed"
      /\ (pc' = "Failed" /\ pc # "Failed") =>
           (config'.symbol # KnownSymbol \/ BarsInRange(config') < 50)
      /\ pc' = "Completed" => result'.trades = trades' /\ result'.config = config
      /\ (Len(decisions') = Len(decisions) + 1 /\ decisions'[Len(decisions')] = "error") =>
           /\ capital' = capital
           /\ trades' = trades
           /\ maxCapital' = maxCapital
           /\ maxDrawdown' = maxDrawdown
           /\ currentDrawdown' = currentDrawdown
           /\ i' = i + 1
    ]_vars

\* a completed run in which a bar raised and a later bar traded
C9_Witness ==
  /\ pc = "Completed"
  /\ \E j \in 1..Len(decisions) :
       /\ decisions[j] = "error"
       /\ \E m \in (j + 1)..Len(decisions) : decisions[m] \in {"buy", "sell"}

\* C10: a second run with the same config and bars, no arbitrage strategy
\* active, returns a result identical to the first.
C10_Deterministic ==
  (pc = "Completed" /\ prior # NoResult /\ "arbitrage" \notin activeStrategies) =>
    result = prior

\* product of the lengths of the ranges
RECURSIVE ProductOfLengths(_)
ProductOfLengths(ranges) ==
  IF Len(ranges) = 0 THEN 1 ELSE Len(ranges[1][2]) * ProductOfLengths(Tail(ranges))

\* the choices of one value per key, in key order
ChoicesOf(ranges) ==
  {c \in [1..Len(ranges) ->
            UNION {{<<ranges[j][1], ranges[j][2][m]>> : m \in 1..Len(ranges[j][2])} :
                     j \in 1..Len(ranges)}] :
     \A j \in 1..Len(ranges) : c[j][1] = ranges[j][1]}

\* C11: the optimizer enumerates the complete Cartesian product of the
\* parameter ranges, its size the product of the range lengths, and runs one
\* backtest per combination, each combination once; for {a:[1,2], b:[10,20]}
\* these are (1,10), (1,20), (2,10), (2,20).
C11_CompleteCartesianProduct ==
  opt.pc # "idle" =>
    LET combos == opt.combinations
    IN /\ Len(combos) = ProductOfLengths(opt.ranges)
       /\ {combos[j] : j \in 1..Len(combos)} = ChoicesOf(opt.ranges)
       /\ \A j, m \in 1..Len(combos) : j # m => combos[j] # combos[m]
       /\ opt.evaluated = SubSeq(combos, 1, opt.k - 1)
       /\ Len(opt.results) + Cardinality({j \in 1..Len(opt.threw) : opt.threw[j]})
            = Len(opt.evaluated)
       /\ opt.pc = "returned" => opt.evaluated = combos
       /\ opt.ranges = << <<"a", <<1, 2>> >>, <<"b", <<10, 20>> >> >> =>
            combos = << << <<"a", 1>>, <<"b", 10>> >>, << <<"a", 1>>, <<"b", 20>> >>,
                        << <<"a", 2>>, <<"b", 10>> >>, << <<"a", 2>>, <<"b", 20>> >> >>

\* a finished sweep of {a:[1,2], b:[10,20]} whose four runs completed
C11_Witness ==
  /\ opt.pc = "returned"
  /\ opt.ranges = << <<"a", <<1, 2>> >>, <<"b", <<10, 20>> >> >>
  /\ Len(opt.evaluated) = 4
  /\ Len(opt.results) = 4

\* C12: optimizeStrategy returns its results in non-increasing order of
\* fitness, the first fitness at least every other, results of equal fitness
\* in enumeration order, whatever the backtests' outcomes.
C12_SortedByFitnessDescending ==
  opt.pc = "returned" =>
    \A j, m \in 1..Len(opt.results) :
      j < m =>
        /\ JsGe(opt.results[j].fitness, opt.results[m].fitness)
        /\ JsEq(opt.results[j].fitness, opt.results[m].fitness) =>
             \E a, b \in 1..Len(opt.evaluated) :
               /\ a < b
               /\ opt.evaluated[a] = opt.results[j].parameters
               /\ opt.evaluated[b] = opt.results[m].parameters

\* the positions of the combination c among the runs that completed, and
\* among the results
CompletedRunsOf(c) ==
  {j \in 1..Len(opt.evaluated) : opt.evaluated[j] = c /\ ~opt.threw[j]}
ResultsOf(c) == {j \in 1..Len(opt.results) : opt.results[j].parameters = c}

\* C13: a combination whose backtest fails gets no entry, the sweep goes on
\* with the remaining combinations, the results hold exactly one entry per
\* run that completed, and optimizeStrategy itself does not fail.
C13_FailedCombinationOmitted ==
  opt.pc # "idle" =>
    /\ opt.pc \in {"sweeping", "returned"}
    /\ Len(opt.threw) = Len(opt.evaluated)
    /\ \A j \in 1..Len(opt.combinations) :
         Cardinality(ResultsOf(opt.combinations[j]))
           = Cardinality(CompletedRunsOf(opt.combinations[j]))
    /\ Len(opt.results) = Cardinality({j \in 1..Len(opt.threw) : ~opt.threw[j]})
    /\ opt.pc = "returned" => opt.evaluated = opt.combinations

\* a finished sweep of four combinations of which the second failed and
\* the other three have their entries
C13_Witness ==
  /\ opt.pc = "returned"
  /\ opt.threw = <<FALSE, TRUE, FALSE, FALSE>>
  /\ Len(opt.results) = 3

\* a finished sweep whose every run failed at validation: no entry, no error
C13_AllFailed ==
  /\ opt.pc = "returned"
  /\ opt.threw = <<TRUE, TRUE, TRUE, TRUE>>
  /\ opt.config.symbol # KnownSymbol
  /\ opt.results = << >>

\* C14: an analyze call of the machine-learning strategy that is waiting
\* for the inference collaborator eventually returns.
C14_AnalyzeEventuallyReturns == (ml.pc = "awaiting") ~> (ml.pc = "returned")

\* the collaborator failures of the call that has returned
InitFailed == ~ml.zai
CompletionFailed == ml.answer.kind \in {"raises", "empty", "unparseable"}

\* C15: when the client cannot be created, the completion call raises, the
\* completion is empty or its content cannot be parsed, analyze returns a
\* signal with action hold, confidence 50 and neither stop-loss nor
\* take-profit; the call always ends by returning a signal.
C15_FailuresGiveNeutralHold ==
  /\ ml.pc \in {"idle", "initializing", "initialized", "awaiting", "answered", "returned"}
  /\ ml.pc = "returned" =>
       /\ ml.signal.action # "throw"
       /\ (InitFailed \/ CompletionFailed) =>
            /\ ml.signal.action = "hold"
            /\ ml.signal.confidence = Percent(50)
            /\ ml.signal.stopLoss = Undef
            /\ ml.signal.takeProfit = Undef

\* a call on priced data whose completion came back unparseable
C15_Witness ==
  /\ ml.pc = "returned"
  /\ ml.zai
  /\ ml.md.latest = Tick
  /\ ml.answer.kind = "unparseable"
  /\ ml.signal = GetFallbackSignal(Tick)

\* a call whose client could not be created
C15_InitFailedWitness ==
  /\ ml.pc = "returned"
  /\ ~ml.zai
  /\ ml.md.latest = Tick
  /\ ml.signal.action = "hold"

InPercentRange(x) == JsGe(x, Percent(0)) /\ JsGe(Percent(100), x)

\* C16: the signal analyze returns has an action among buy, sell, hold and
\* a strength and a confidence between 0 and 100.
C16_SignalInRange ==
  ml.pc = "returned" =>
    /\ ml.signal.action \in Actions
    /\ InPercentRange(ml.signal.strength)
    /\ InPercentRange(ml.signal.confidence)

\* the capital before the k-th trade of trs: the initial capital plus the
\* profitLoss of the trades before it
CapitalBefore(trs, k) ==
  JsAdd(Num(config.initialCapital), SumProfitLoss(SubSeq(trs, 1, k - 1)))

\* C17: for each recorded trade, quantity = (capital before the trade * 0.01)
\* / (entryPrice * 0.02) with entryPrice the close of the signal bar,
\* fees = |entryPrice * quantity| * 0.001, and profitLoss = (exitPrice -
\* entryPrice) * quantity * (+1 for buy, -1 for sell) - fees.
C17_TradeAccounting ==
  pc \in {"Running", "Completed"} =>
    \A k \in 1..Len(trades) :
      LET t == trades[k]
          direction == IF t.type = "buy" THEN Num(1) ELSE Num(-1)
      IN /\ JsEq(t.quantity,
                 JsDiv(JsMul(CapitalBefore(trades, k), Num(RiskPerMille)),
                       JsMul(t.entryPrice, Num(MovePerMille))))
         /\ JsEq(t.fees, JsDiv(JsAbs(JsMul(t.entryPrice, t.quantity)), Num(FeeDivisor)))
         /\ JsEq(t.profitLoss,
                 JsSub(JsMul(JsMul(JsSub(t.exitPrice, t.entryPrice), t.quantity), direction),
                       t.fees))

\* C18: a buy consensus has stopLoss = entry - 2*ATR and takeProfit = entry
\* + 3*ATR, a sell consensus has stopLoss = entry + 2*ATR and takeProfit =
\* entry - 3*ATR, with the entry price of the consensus and the ATR of the
\* window, whatever the strategies proposed; a hold consensus has neither.
C18_ConsensusStopsFromEntryAndAtr ==
  LET c == lastEval.consensus
      twoAtr == JsMul(Num(2), lastEval.atr)
      threeAtr == JsMul(Num(3), lastEval.atr)
  IN /\ c.action = "buy" =>
          /\ c.stopLoss = JsSub(c.entryPrice, twoAtr)
          /\ c.takeProfit = JsAdd(c.entryPrice, threeAtr)
     /\ c.action = "sell" =>
          /\ c.stopLoss = JsAdd(c.entryPrice, twoAtr)
          /\ c.takeProfit = JsSub(c.entryPrice, threeAtr)
     /\ c.action = "hold" =>
          /\ c.stopLoss = Undef
          /\ c.takeProfit = Undef

\* a buy consensus at price 1000 with ATR 5 whose only vote is the
\* arbitrage signal proposing 999 and 1002: the consensus has 990 and 1015
C18_Witness ==
  /\ lastEval.consensus.action = "buy"
  /\ lastEval.atr = Num(5)
  /\ Len(lastEval.consSignals) = 1
  /\ lastEval.consSignals[1].strategy = "arbitrage"
  /\ lastEval.consSignals[1].stopLoss = Num(999)
  /\ lastEval.consSignals[1].takeProfit = Num(1002)
  /\ lastEval.consensus.stopLoss = Num(990)
  /\ lastEval.consensus.takeProfit = Num(1015)

\* a sell consensus and a hold consensus on priced data
C18_SellWitness ==
  /\ lastEval.consensus.action = "sell"
  /\ lastEval.consensus.stopLoss = Num(1010)
  /\ lastEval.consensus.takeProfit = Num(985)

C18_HoldWitness ==
  /\ lastEval.consensus.action = "hold"
  /\ lastEval.consensus.entryPrice = Num(1000)
  /\ lastEval.consensus.stopLoss = Undef

\* the bullish and the bearish indications among the three of a reading
BullishCount(r) ==
  Cardinality({n \in {"rsi", "macd", "sma"} :
                 \/ n = "rsi" /\ r.rsi < RsiOversold
                 \/ n = "macd" /\ r.macd > r.signal /\ r.macd - r.signal > 0
                 \/ n = "sma" /\ r.smaShort > r.smaLong})
BearishCount(r) ==
  Cardinality({n \in {"rsi", "macd", "sma"} :
                 \/ n = "rsi" /\ r.rsi > RsiOverbought
                 \/ n = "macd" /\ r.macd < r.signal /\ r.macd - r.signal < 0
                 \/ n = "sma" /\ r.smaShort < r.smaLong})
MinOf(a, b) == IF a <= b THEN a ELSE b

\* C19: the technical strategy emits buy when at least two of its three
\* indications are bullish, otherwise sell when at least two are bearish,
\* otherwise hold; a buy or sell has strength min(votes * 33, 100) and
\* confidence min(votes / 3 * 100, 100), votes being the number of agreeing
\* indications.
C19_TechnicalVotes ==
  calc.fn = "analyze" =>
    LET bull == BullishCount(calc.md.ind)
        bear == BearishCount(calc.md.ind)
        votes == IF bull >= 2 THEN bull ELSE bear
        sg == calc.signal
    IN /\ sg.action = (IF bull >= 2 THEN "buy" ELSE IF bear >= 2 THEN "sell" ELSE "hold")
       /\ sg.action # "hold" =>
            /\ sg.strength = Percent(MinOf(votes * 33, 100))
            /\ IsNum(sg.confidence)
            /\ 3 * sg.confidence.v = MinOf(votes * Percent(100).v, 3 * Percent(100).v)

\* a buy on two bullish indications (MACD and moving averages, RSI at the
\* oversold threshold, which is not below it): strength 66, confidence 200/3
C19_Witness ==
  /\ calc.fn = "analyze"
  /\ calc.md.ind.rsi = RsiOversold
  /\ BullishCount(calc.md.ind) = 2
  /\ calc.signal.action = "buy"
  /\ calc.signal.strength = Percent(66)
  /\ 3 * calc.signal.confidence.v = Percent(200).v

\* a sell on three bearish indications: strength 99, confidence 100
C19_SellWitness ==
  /\ calc.fn = "analyze"
  /\ BearishCount(calc.md.ind) = 3
  /\ calc.signal.action = "sell"
  /\ calc.signal.strength = Percent(99)
  /\ calc.signal.confidence = Percent(100)

\* one bullish and one bearish indication: hold
C19_HoldWitness ==
  /\ calc.fn = "analyze"
  /\ BullishCount(calc.md.ind) = 1
  /\ BearishCount(calc.md.ind) = 1
  /\ calc.signal.action = "hold"

\* all the trades of trs have the same return%: every two of them compare
\* equal, which a single trade satisfies by itself
IdenticalReturns(trs) ==
  \A j, k \in 1..Len(trs) :
    j # k => JsEq(trs[j].profitLossPercent, trs[k].profitLossPercent)

\* C20: in the summary of a backtest that recorded trades, profitFactor is
\* Infinity when at least one trade won and none lost, and sharpeRatio is 0
\* when all the trades have the same return%.
C20_SummaryRatios ==
  (pc = "Completed" /\ Len(result.trades) > 0) =>
    /\ (result.summary.winningTrades >= 1 /\ result.summary.losingTrades = 0) =>
         result.summary.profitFactor = Infinity
    /\ IdenticalReturns(result.trades) => result.summary.sharpeRatio = Num(0)

\* the return% of the trades of a result, and their mean
ReturnsOf(trs) == [k \in 1..Len(trs) |-> trs[k].profitLossPercent]
MeanReturn(trs) == JsDiv(JsSum(ReturnsOf(trs)), Num(Len(trs)))

\* C21: the sortinoRatio of a result's metrics is the mean of the trades'
\* return% divided by the deviation of the negative returns, and it is
\* infinite when no trade has a negative return%.
C21_SortinoRatio ==
  pc = "Completed" =>
    IF Len(NegativeReturns(result.trades)) = 0
    THEN result.metrics.sortinoRatio = Infinity
    ELSE result.metrics.sortinoRatio =
           JsDiv(MeanReturn(result.trades),
                 DownsideDeviation(NegativeReturns(result.trades)))

\* what a call returns when it executes alone, with the strategy outcomes
\* and the clock readings it met
AloneResult(call) ==
  RunBacktest(call.config, activeStrategies, call.readings, DrawsOfCall(call.drawn),
              now).result

\* C22: every runBacktest call starts from capital = initialCapital, no
\* drawdown, an empty trade list and an empty equity curve, and what it
\* returns is what the same call returns when it executes alone, whatever
\* calls ran before it or between its iterations.
C22_RunsIndependent ==
  [][\A r \in RunIds :
       /\ (calls[r].pc = "idle" /\ calls'[r].pc = "running") =>
            /\ calls'[r].st.capital = Num(calls'[r].config.initialCapital)
            /\ calls'[r].st.maxCapital = Num(calls'[r].config.initialCapital)
            /\ calls'[r].st.maxDrawdown = Num(0)
            /\ calls'[r].st.currentDrawdown = Num(0)
            /\ calls'[r].st.trades = << >>
            /\ calls'[r].st.equityCurve = << >>
       /\ (calls[r].pc = "running" /\ calls'[r].pc = "returned") =>
            calls'[r].result = AloneResult(calls'[r])]_vars

\* two calls have returned after running between each other's iterations,
\* both with trades, on different strategy outcomes
C22_Witness ==
  /\ calls[1].pc = "returned" /\ calls[2].pc = "returned"
  /\ calls[1].interleaved /\ calls[2].interleaved
  /\ Len(calls[1].result.trades) > 0
  /\ Len(calls[2].result.trades) > Len(calls[1].result.trades)

\* the bars are stored ascending, no two with one timestamp
BarsAscending ==
  \A k \in 1..(Len(HistoricalData) - 1) :
    HistoricalData[k].timestamp < HistoricalData[k + 1].timestamp

\* C23: the bars being ascending with distinct timestamps, the timestamps of
\* the equity curve never decrease, the trades are recorded in increasing
\* entryTime order, and every trade is entered before it is exited; the same
\* holds of the result returned.
C23_BarsInOrder ==
  (BarsAscending /\ pc \in {"Running", "Completed"}) =>
    LET trs == IF pc = "Completed" THEN result.trades ELSE trades
        curve == IF pc = "Completed" THEN result.equity_curve ELSE equityCurve
    IN /\ \A k \in 1..(Len(curve) - 1) : curve[k].timestamp <= curve[k + 1].timestamp
       /\ \A k \in 1..(Len(trs) - 1) : trs[k].entryTime < trs[k + 1].entryTime
       /\ \A k \in 1..Len(trs) : trs[k].entryTime < trs[k].exitTime
       /\ pc = "Completed" => (result.trades = trades /\ result.equity_curve = equityCurve)

\* a completed run with two trades and an equity point for each bar
C23_Witness ==
  /\ pc = "Completed"
  /\ Len(result.trades) >= 2
  /\ Len(result.equity_curve) > Len(result.trades)
  /\ result.trades[1].exitTime <= result.trades[2].entryTime

\* C24: once a running optimization is cancelled, no further combination
\* is launched: the run in flight at the cancellation is the last one the
\* sweep starts, and the sweep returns no entry for a later combination.
C24_CancelStopsLaunching ==
  (opt.pc \in {"sweeping", "returned"} /\ opt.cancelled) =>
    /\ opt.pc = "sweeping" => opt.k = opt.launchedAtCancel
    /\ Len(opt.evaluated) <= opt.launchedAtCancel
    /\ Len(opt.results) <= opt.launchedAtCancel

\* the series rises strictly
StrictlyIncreasing(closes) ==
  \A k \in 1..(Len(closes) - 1) : IsNum(closes[k]) /\ JsLt(closes[k], closes[k + 1])

\* C25: calculateRSI returns 50 on fewer than period + 1 samples, returns
\* exactly 100 when the average loss is 0, as for every strictly increasing
\* series of LongSeriesLen values with period 14, and otherwise returns a
\* value between 0 and 100.
C25_RsiRange ==
  calc.fn = "calculateRSI" =>
    LET n == Len(calc.closes)
        losses == SumOfLosses(Changes(calc.closes))
    IN /\ n < calc.period + 1 => (calc.rsi.n = 50 /\ calc.rsi.d = 1)
       /\ (n >= calc.period + 1 /\ losses = 0) => (calc.rsi.n = 100 /\ calc.rsi.d = 1)
       /\ (n = LongSeriesLen /\ calc.period = RsiPeriod /\ StrictlyIncreasing(calc.closes))
            => (calc.rsi.n = 100 /\ calc.rsi.d = 1)
       /\ (n >= calc.period + 1 /\ losses # 0) =>
            /\ calc.rsi.d > 0
            /\ FracLe(Frac(0, 1), calc.rsi)
            /\ FracLe(calc.rsi, Frac(100, 1))

\* a rising long series with period 14 gave 100
C25_Witness ==
  /\ calc.fn = "calculateRSI"
  /\ Len(calc.closes) = LongSeriesLen /\ calc.period = RsiPeriod
  /\ StrictlyIncreasing(calc.closes)
  /\ calc.closes[2] # JsAdd(calc.closes[1], Num(1))
  /\ FracEq(calc.rsi, Frac(100, 1))

\* too few samples gave 50
C25_ShortWitness ==
  /\ calc.fn = "calculateRSI"
  /\ Len(calc.closes) = calc.period /\ calc.period = 2
  /\ StrictlyIncreasing(calc.closes)
  /\ FracEq(calc.rsi, Frac(50, 1))

\* gains and losses gave a value strictly between 0 and 100, and losses
\* alone gave 0
C25_MixedWitness ==
  /\ calc.fn = "calculateRSI"
  /\ SumOfLosses(Changes(calc.closes)) > 0
  /\ SumOfGains(Changes(calc.closes)) > SumOfLosses(Changes(calc.closes))
  /\ ~FracLe(calc.rsi, Frac(50, 1)) /\ ~FracLe(Frac(100, 1), calc.rsi)

\* the orders in which the three entries of votes can be compared
ComparisonOrders ==
  {<<a, b, c>> : a \in Actions, b \in Actions, c \in Actions} \cap
  {order \in [1..3 -> Actions] : Cardinality({order[k] : k \in 1..3}) = 3}

\* the reduce of getConsensusSignal over the entries taken in the order given
WinningActionIn(order, signals) ==
  LET first == IF Votes(signals, order[1]) > Votes(signals, order[2])
               THEN order[1] ELSE order[2]
  IN IF Votes(signals, first) > Votes(signals, order[3]) THEN first ELSE order[3]

\* the action getConsensusSignal returns with the entries compared in the
\* order given, none when it returns null
ConsensusActionIn(order, signals) ==
  IF Len(signals) = 0 THEN "none"
  ELSE IF HasMajority(Votes(signals, WinningActionIn(order, signals)), Len(signals))
       THEN WinningActionIn(order, signals)
       ELSE "none"

\* two actions share the largest number of votes
TiedForMost(sigs) ==
  \E a \in Actions, b \in Actions :
    /\ a # b
    /\ Tally(sigs, a) = Tally(sigs, b)
    /\ \A x \in Actions : Tally(sigs, x) <= Tally(sigs, a)

C26_SignalWitness ==
  /\ Len(lastEval.consSignals) = 3
  /\ Tally(lastEval.consSignals, "buy") = 2 /\ Tally(lastEval.consSignals, "hold") = 1
  /\ lastEval.consensus.action = "buy"

\* C27: two runBacktest calls whose configs differ in parameters only, on
\* the same bars and strategy outcomes, both throw or return the same
\* trades, equity curve, summary and metrics, each echoing its own
\* parameters in result.config; the entries a sweep would push for the two
\* combinations have the same fitness.
C27_ParametersIgnored ==
  calc.fn = "runBacktest" =>
    /\ calc.first.threw = calc.second.threw
    /\ ~calc.first.threw =>
         /\ calc.first.result.trades = calc.second.result.trades
         /\ calc.first.result.equity_curve = calc.second.result.equity_curve
         /\ calc.first.result.summary = calc.second.result.summary
         /\ calc.first.result.metrics = calc.second.result.metrics
         /\ calc.first.result.config.parameters = calc.parameters[1]
         /\ calc.second.result.config.parameters = calc.parameters[2]
         /\ calc.first.result.config # calc.second.result.config
         /\ OptimizationResult(calc.parameters[1], calc.first.result).fitness
              = OptimizationResult(calc.parameters[2], calc.second.result).fitness

\* two runs with different parameters returned the same two trades
C27_Witness ==
  /\ calc.fn = "runBacktest"
  /\ ~calc.first.threw
  /\ Len(calc.parameters[1]) = 2 /\ Len(calc.parameters[2]) = 2
  /\ Len(calc.first.result.trades) >= 2
  /\ calc.first.result.trades = calc.second.result.trades

\* C28: after any sequence of executed buy and sell orders, a position is
\* open exactly when its quantity is above 0, so getOpenPositions lists every
\* position that holds quantity.
C28_OpenIffHolding ==
  /\ \A k \in 1..Len(svc.positions) :
       (svc.positions[k].status = "open") <=> (svc.positions[k].quantity > 0)
  /\ Len(GetOpenPositions) = Cardinality({k \in 1..Len(svc.positions) :
                                            svc.positions[k].quantity > 0})

\* C29: the quantity of a position is never negative, whatever the
\* interleaving of the executeOrder calls.
C29_QuantityNeverNegative ==
  \A k \in 1..Len(svc.positions) : svc.positions[k].quantity >= 0

\* C30: an order for which cancelOrder has returned true stays cancelled: it
\* is not marked executed afterwards, is not pending again, and is in the
\* trades of no position.
C30_CancelledIsTerminal ==
  \A orderId \in svc.cancels :
    /\ svc.orders[orderId].status = "cancelled"
    /\ orderId \notin {o.id : o \in {GetPendingOrders[k] : k \in 1..Len(GetPendingOrders)}}
    /\ \A k \in 1..Len(svc.positions) :
         \A t \in 1..Len(svc.positions[k].trades) : svc.positions[k].trades[t] # orderId

====
